---- MODULE Spec2Model ----
(***************************************************************************)
(* Model of the agito SSH gateway (src/src/ssh.rs): exec-request dispatch, *)
(* repository path handling, the per-connection table of stdin senders and *)
(* the four tasks that bridge a git subprocess to its channel.             *)
(*                                                                         *)
(* Strings are sequences of one-character strings, so that starts_with,    *)
(* split_whitespace, trim_matches, Path::join and Path::starts_with are    *)
(* computed the way the Rust standard library computes them.               *)
(***************************************************************************)
EXTENDS Integers, Sequences, FiniteSets, TLC

\* ------------------------------------------------------------------------
\* str: the string operations the handlers use
\* ------------------------------------------------------------------------

\* str::starts_with(prefix)
StartsWith(s, p) ==
    /\ Len(p) <= Len(s)
    /\ SubSeq(s, 1, Len(p)) = p

\* str::ends_with(suffix)
EndsWith(s, p) ==
    /\ Len(p) <= Len(s)
    /\ SubSeq(s, Len(s) - Len(p) + 1, Len(s)) = p

\* str::contains(pattern)
Contains(s, p) ==
    \E i \in 1..(Len(s) - Len(p) + 1) : SubSeq(s, i, i + Len(p) - 1) = p

\* char::is_whitespace, for the characters the model's commands use
Whitespace == {" ", "\t"}

\* Split s at the characters satisfying the separator test, dropping empty
\* pieces: str::split_whitespace with IsSep = whitespace, and the component
\* split of a path with IsSep = '/'.
RECURSIVE SplitOn(_, _, _, _)
SplitOn(s, seps, cur, acc) ==
    IF s = <<>>
    THEN IF cur = <<>> THEN acc ELSE Append(acc, cur)
    ELSE IF Head(s) \in seps
         THEN SplitOn(Tail(s), seps, <<>>,
                      IF cur = <<>> THEN acc ELSE Append(acc, cur))
         ELSE SplitOn(Tail(s), seps, Append(cur, Head(s)), acc)

\* str::split_whitespace().collect()
SplitWhitespace(s) == SplitOn(s, Whitespace, <<>>, <<>>)

\* str::trim_start_matches(ch)
RECURSIVE TrimStartMatches(_, _)
TrimStartMatches(s, ch) ==
    IF s # <<>> /\ Head(s) = ch THEN TrimStartMatches(Tail(s), ch) ELSE s

\* str::trim_end_matches(ch)
RECURSIVE TrimEndMatches(_, _)
TrimEndMatches(s, ch) ==
    IF s # <<>> /\ s[Len(s)] = ch
    THEN TrimEndMatches(SubSeq(s, 1, Len(s) - 1), ch)
    ELSE s

\* str::trim_matches(ch): both ends
TrimMatches(s, ch) == TrimEndMatches(TrimStartMatches(s, ch), ch)

\* ------------------------------------------------------------------------
\* std::path: PathBuf::join, Path::components, Path::starts_with, and the
\* operating system's resolution of a path (Path::exists)
\* ------------------------------------------------------------------------

RootDir   == <<"/">>
CurDir    == <<".">>
ParentDir == <<".", ".">>

\* Path::has_root / Path::is_absolute (Unix)
IsAbsolute(path) == path # <<>> /\ Head(path) = "/"

\* Path::components: the root, then the pieces between separators; empty
\* pieces and "." are dropped, except a "." that starts a relative path;
\* ".." is kept as a component (nothing is resolved).
Components(path) ==
    LET parts == SplitOn(path, {"/"}, <<>>, <<>>)
        keep(i) == \/ parts[i] # CurDir
                   \/ (i = 1 /\ ~IsAbsolute(path) /\ Head(path) = ".")
        kept == SelectSeq([i \in 1..Len(parts) |-> <<i, parts[i]>>],
                          LAMBDA e : keep(e[1]))
    IN  (IF IsAbsolute(path) THEN <<RootDir>> ELSE <<>>)
        \o [i \in 1..Len(kept) |-> kept[i][2]]

\* PathBuf::join / PathBuf::push: an absolute argument replaces the base;
\* otherwise a separator is added when the base does not end in one.
PathJoin(base, path) ==
    IF IsAbsolute(path) THEN path
    ELSE IF base # <<>> /\ base[Len(base)] # "/"
         THEN base \o <<"/">> \o path
         ELSE base \o path

\* Path::starts_with: base's components are a prefix of path's components
PathStartsWith(path, base) ==
    LET pc == Components(path)
        bc == Components(base)
    IN  /\ Len(bc) <= Len(pc)
        /\ SubSeq(pc, 1, Len(bc)) = bc

\* A location of the file system is the sequence of names below "/".
\* Lexical normalisation of a component sequence: ".." removes the name
\* before it (the parent of "/" is "/"), "." and the root add nothing.
RECURSIVE NormalizeFrom(_, _)
NormalizeFrom(comps, cur) ==
    IF comps = <<>> THEN cur
    ELSE LET c == Head(comps)
         IN  IF c = RootDir \/ c = CurDir THEN NormalizeFrom(Tail(comps), cur)
             ELSE IF c = ParentDir
                  THEN NormalizeFrom(Tail(comps),
                         IF cur = <<>> THEN cur ELSE SubSeq(cur, 1, Len(cur) - 1))
                  ELSE NormalizeFrom(Tail(comps), Append(cur, c))

Normalize(path) == NormalizeFrom(Components(path), <<>>)

\* The operating system's walk of a path over the entries `files` (a set of
\* locations, each with all its ancestors): every name on the way must
\* exist before a later ".." can leave it. NoEntry when the walk fails.
NoEntry == << <<"E", "N", "O", "E", "N", "T">>, <<>> >>

RECURSIVE WalkFrom(_, _, _)
WalkFrom(files, comps, cur) ==
    IF comps = <<>> THEN cur
    ELSE LET c == Head(comps)
         IN  IF c = RootDir \/ c = CurDir THEN WalkFrom(files, Tail(comps), cur)
             ELSE IF c = ParentDir
                  THEN WalkFrom(files, Tail(comps),
                         IF cur = <<>> THEN cur ELSE SubSeq(cur, 1, Len(cur) - 1))
                  ELSE IF Append(cur, c) \in files
                       THEN WalkFrom(files, Tail(comps), Append(cur, c))
                       ELSE NoEntry

\* The location a path names, or NoEntry
Resolve(files, path) == WalkFrom(files, Components(path), <<>>)

\* Path::exists
PathExists(files, path) == Resolve(files, path) # NoEntry

\* Is location loc the root location or below it
IsWithin(loc, rootLoc) ==
    /\ Len(rootLoc) <= Len(loc)
    /\ SubSeq(loc, 1, Len(rootLoc)) = rootLoc

\* ------------------------------------------------------------------------
\* Bounds of the model and the configuration of the server
\* ------------------------------------------------------------------------

\* exec requests handled on one connection
MaxExec == 2
\* bytes a subprocess writes to its standard output
MaxOut == 2
\* bytes a subprocess writes to its standard error
MaxErr == 1
\* bytes the client sends on the connection
MaxData == 2
\* size of a relay's read buffer (vec![0u8; 8192], scaled down)
ReadBuf == 1

Channels == {1, 2}
\* The channels opened when one channel's traffic is followed (the handlers
\* alone, and the subprocess-to-client direction)
DispatchChannels == {1}
\* The subprocesses one connection may have spawned
Pids     == {1, 2}
NoPid    == 0

\* The repository root (--repos), an absolute path two levels deep
ReposDir == <<"/", "v", "/", "r">>

GitUploadPack   == <<"g","i","t","-","u","p","l","o","a","d","-","p","a","c","k">>
GitReceivePack  == <<"g","i","t","-","r","e","c","e","i","v","e","-","p","a","c","k">>
AgitoCreateRepo == <<"a","g","i","t","o","-","c","r","e","a","t","e","-","r","e","p","o">>
DotGit          == <<".", "g", "i", "t">>

\* ------------------------------------------------------------------------
\* The exec requests a client may send
\* ------------------------------------------------------------------------

Sp == <<" ">>

\* Second tokens: repository references and names
Args ==
    { <<"a", ".", "g", "i", "t">>,                          \* a.git
      <<"'", "a", ".", "g", "i", "t", "'">>,                \* 'a.git'
      <<"/", "a", ".", "g", "i", "t">>,                     \* /a.git
      <<"a">>,                                             \* a
      <<"b">>,                                             \* b
      <<"b", ".", "g", "i", "t">>,                          \* b.git
      <<"'", ".", ".", "/", "s", "'">>,                     \* '../s'
      <<".", ".", "/", ".", ".", "/", "e">>,                \* ../../e
      <<"a", ".", "g", "i", "t", "/", ".", ".", "/", ".", ".", "/", "s">>,
      <<"b", "/", "c">>,                                   \* b/c
      <<".", ".">> }                                       \* ..

\* The three verbs with these arguments, the verbs alone, a longer word
\* that begins with a verb, a creation of "c." (whose name with the suffix
\* has two dots in a row), a verb after a blank, and other programs
Commands ==
    { v \o Sp \o a : v \in {GitUploadPack, AgitoCreateRepo}, a \in Args }
    \cup { GitReceivePack \o Sp \o a :
             a \in { <<"a", ".", "g", "i", "t">>, <<"b">>,
                     <<"'", ".", ".", "/", "s", "'">> } }
    \cup { GitUploadPack, GitReceivePack \o Sp, AgitoCreateRepo,
           GitUploadPack \o <<"X">> \o Sp \o <<"a", ".", "g", "i", "t">>,
           GitUploadPack \o <<"X">>,
           AgitoCreateRepo \o <<"X">> \o Sp \o <<"b">>,
           AgitoCreateRepo \o Sp \o <<"c", ".">>,
           Sp \o GitUploadPack \o Sp \o <<"a", ".", "g", "i", "t">>,
           <<"r", "m">> \o Sp \o <<"-", "r", "f">> \o Sp \o <<"/">>,
           <<"r", "m">>,
           <<>> }

\* The requests used when the subprocess tasks run as well
BridgeCommands ==
    { GitUploadPack \o Sp \o <<"'", "a", ".", "g", "i", "t", "'">>,
      <<"r", "m">> \o Sp \o <<"-", "r", "f">> \o Sp \o <<"/">> }

\* The request among them that starts a subprocess
SpawnCommands ==
    { GitUploadPack \o Sp \o <<"'", "a", ".", "g", "i", "t", "'">> }

\* The file system at start: the root /v/r with one repository a.git, and
\* a directory /v/s beside the root
InitialFiles ==
    { << <<"v">> >>,
      << <<"v">>, <<"r">> >>,
      << <<"v">>, <<"r">>, <<"a", ".", "g", "i", "t">> >>,
      << <<"v">>, <<"s">> >> }

RootLoc == Normalize(ReposDir)

\* ------------------------------------------------------------------------
\* The authorized-keys store and auth_publickey
\* ------------------------------------------------------------------------

\* str::lines: the pieces between line feeds, empty ones kept, without a
\* last empty piece
RECURSIVE LinesFrom(_, _, _)
LinesFrom(text, cur, acc) ==
    IF text = <<>>
    THEN IF cur = <<>> THEN acc ELSE Append(acc, cur)
    ELSE IF Head(text) = "\n"
         THEN LinesFrom(Tail(text), <<>>, Append(acc, cur))
         ELSE LinesFrom(Tail(text), Append(cur, Head(text)), acc)

Lines(text) == LinesFrom(text, <<>>, <<>>)

\* str::trim: whitespace removed at both ends
RECURSIVE TrimStart(_)
TrimStart(s) ==
    IF s # <<>> /\ Head(s) \in Whitespace THEN TrimStart(Tail(s)) ELSE s

RECURSIVE TrimEnd(_)
TrimEnd(s) ==
    IF s # <<>> /\ s[Len(s)] \in Whitespace
    THEN TrimEnd(SubSeq(s, 1, Len(s) - 1))
    ELSE s

Trim(s) == TrimEnd(TrimStart(s))

\* The public keys a client may present, and no key (a failed decoding)
PublicKeys == {1, 2}
NoKey == 0

\* russh_keys::parse_public_key_base64: the key a base64 body encodes, for
\* the bodies of the model: "A" encodes key 1, "B" key 2, nothing else is a
\* key
ParsePublicKeyBase64(key_str) ==
    IF key_str = <<"A">> THEN 1
    ELSE IF key_str = <<"B">> THEN 2
    ELSE NoKey

\* A mutant of AuthLoop: a line that fails to decode ends the search
RECURSIVE AuthLoop_BadLineFatal(_, _)
AuthLoop_BadLineFatal(lines, public_key) ==
    IF lines = <<>> THEN "reject"
    ELSE LET line  == Head(lines)
             split == SplitWhitespace(line)
         IN  IF Trim(line) = <<>> \/ StartsWith(line, <<"#">>)
             THEN AuthLoop_BadLineFatal(Tail(lines), public_key)
             ELSE IF split = <<>>
             THEN AuthLoop_BadLineFatal(Tail(lines), public_key)
             ELSE LET key_str == IF Len(split) >= 2 THEN split[2] ELSE split[1]
                  IN  IF ParsePublicKeyBase64(key_str) = NoKey
                      THEN "reject"
                      ELSE IF ParsePublicKeyBase64(key_str) = public_key
                           THEN "accept"
                           ELSE AuthLoop_BadLineFatal(Tail(lines), public_key)

\* The loop of auth_publickey over the lines of the store
RECURSIVE AuthLoop(_, _)
AuthLoop(lines, public_key) ==
    IF lines = <<>> THEN "reject"
    ELSE LET line  == Head(lines)
             split == SplitWhitespace(line)
         IN  IF Trim(line) = <<>> \/ StartsWith(line, <<"#">>)
             THEN AuthLoop(Tail(lines), public_key)
             ELSE IF split = <<>>
             THEN AuthLoop(Tail(lines), public_key)
             ELSE LET key_str == IF Len(split) >= 2 THEN split[2] ELSE split[1]
                  IN  IF /\ ParsePublicKeyBase64(key_str) # NoKey
                         /\ ParsePublicKeyBase64(key_str) = public_key
                      THEN "accept"
                      ELSE AuthLoop(Tail(lines), public_key)

\* A mutant of AuthPublickey: a missing store accepts
AuthPublickey_MissingAccepts(store, user, public_key) ==
    IF ~store.exists THEN "accept"
    ELSE IF ~store.readable THEN "error"
    ELSE AuthLoop(Lines(store.text), public_key)

\* SessionHandler::auth_publickey: "accept", "reject", or "error" when the
\* store exists and read_to_string fails
AuthPublickey(store, user, public_key) ==
    IF ~store.exists THEN "reject"
    ELSE IF ~store.readable THEN "error"
    ELSE AuthLoop(Lines(store.text), public_key)

\* The lines the stores of the model are made of
KeyLine == <<"t", " ", "A", " ", "c">>
AuthLines ==
    { KeyLine,
      <<"t", " ", "B">>,
      <<"A">>,
      <<>>,
      <<" ", " ">>,
      <<"#", "t", " ", "A">>,
      <<"t", " ", "X">>,
      <<"t", "\t", "A">>,
      <<"A", " ", "t">> }

\* The text of a file with the given lines, each ended by a line feed
RECURSIVE JoinLines(_)
JoinLines(lines) ==
    IF lines = <<>> THEN <<>>
    ELSE Head(lines) \o <<"\n">> \o JoinLines(Tail(lines))

\* A store file that exists, can be read and has the given lines
StoreOf(lines) == [exists |-> TRUE, readable |-> TRUE, text |-> JoinLines(lines)]

\* The stores: no file, a file that cannot be read, and the files of up to
\* MaxLines lines
MaxLines == 2
Stores ==
    { [exists |-> FALSE, readable |-> FALSE, text |-> <<>>],
      [exists |-> TRUE, readable |-> FALSE, text |-> <<>>] }
    \cup { StoreOf(lines) :
             lines \in UNION { [1..n -> AuthLines] : n \in 0..MaxLines } }

\* The users a client may claim to be
Users == {"git", "eve"}

\* No call of auth_publickey yet (prev: the key and result of the call
\* before the latest one)
NoAuth == [user |-> "", key |-> NoKey, result |-> "none",
           prev |-> <<NoKey, "none">>]

\* ------------------------------------------------------------------------
\* State
\* ------------------------------------------------------------------------

VARIABLES
    chanStatus,     \* channel -> "unopened" | "open" | "closed" (the client closed it)
    sessionAlive,   \* the connection's session loop is running
    git_processes,  \* SessionHandler.git_processes: channel -> pid of the sender, or NoPid
    chanOut,        \* channel -> the messages the server has sent on it, in order
    files,          \* the file system: the set of existing locations
    procs,          \* pid -> the subprocess spawned for it and its four tasks
                    \* (waitResult: what child.wait() returned to the exit-wait task)
    execCount,      \* exec requests handled so far
    sentCount,      \* bytes the client has sent so far
    last,           \* what the latest exec request did
    authorized_keys,\* the file at authorized_keys_path: exists, readable, text
    auth,           \* the latest call of auth_publickey: user, key, result,
                    \* and key and result of the call before it
    peer            \* a second connection: the git_processes of its own
                    \* SessionHandler, its subprocesses, the bytes its client sent

vars == <<chanStatus, sessionAlive, git_processes, chanOut, files, procs,
          execCount, sentCount, last, authorized_keys, auth, peer>>

\* A message on a channel. from: NoPid for one a handler wrote, else the pid
\* of the subprocess whose task sent it. kind: "data" (session.data),
\* "ext" (extended_data, code 1), "exit" (exit_status_request), "eof", "close".
Msg(kind, from, body) == [kind |-> kind, from |-> from, body |-> body]

\* format!(fmt, arg): the text fmt with its {} replaced by arg
Text(fmt, arg) == [fmt |-> fmt, arg |-> arg]

\* The four calls every refusal makes: session.data(msg),
\* session.exit_status_request(code), session.eof, session.close
Reply(text, code) ==
    << Msg("data", NoPid, text), Msg("exit", NoPid, code),
       Msg("eof", NoPid, 0), Msg("close", NoPid, 0) >>

\* A subprocess slot that has not been used
NoProc ==
    [ state |-> "unused", chan |-> 0, prog |-> <<>>, arg |-> <<>>,
      rxQueue |-> <<>>, expected |-> <<>>,
      stdinPc |-> "recv", stdinErr |-> FALSE, stdinWritten |-> <<>>,
      stdinShutdowns |-> 0,
      outCount |-> 0, stdoutPipe |-> <<>>, stdoutPc |-> "read", stdoutBuf |-> <<>>,
      stdoutErr |-> FALSE,
      errCount |-> 0, stderrPipe |-> <<>>, stderrPc |-> "read", stderrBuf |-> <<>>,
      waitResult |-> <<"none", 0>>, exitPc |-> "wait" ]

NoExec == [ chan |-> 0, command |-> <<>>, route |-> "none", out |-> <<>>,
            fsOps |-> <<>>, spawned |-> NoPid, failed |-> FALSE ]

\* A second connection the server has accepted: its own SessionHandler with
\* an empty table, and no subprocess
\* (create: where its handle_create_repo stands, "idle", "init" between the
\* exists() check and init_bare_repo, or "done", with the name and path it
\* works on; out: what the handler has sent on its channel)
NoPeer == [ git_processes |-> [c \in Channels |-> NoPid],
            procs |-> [p \in Pids |-> NoProc],
            sentCount |-> 0,
            create |-> [pc |-> "idle", name |-> <<>>, path |-> <<>>],
            out |-> <<>> ]

\* A connection the server has accepted: a SessionHandler with an empty table
InitConn ==
    /\ chanStatus = [c \in Channels |-> "unopened"]
    /\ sessionAlive = TRUE
    /\ git_processes = [c \in Channels |-> NoPid]
    /\ chanOut = [c \in Channels |-> <<>>]
    /\ files = InitialFiles
    /\ procs = [p \in Pids |-> NoProc]
    /\ execCount = 0
    /\ sentCount = 0
    /\ last = NoExec
    /\ peer = NoPeer

\* The connection once its client has authenticated with a key of the store
Init ==
    /\ InitConn
    /\ authorized_keys = StoreOf(<< KeyLine >>)
    /\ auth = [user |-> "git", key |-> 1, result |-> "accept",
               prev |-> <<NoKey, "none">>]

\* The connection before authentication, for every store of Stores
InitAuth ==
    /\ InitConn
    /\ authorized_keys \in Stores
    /\ auth = NoAuth

\* ------------------------------------------------------------------------
\* exec_request and the two command handlers, as functions of the command
\* and the file system: what is written to the channel, which paths are
\* touched, and whether a subprocess or a repository is to be made
\* ------------------------------------------------------------------------

FsOp(op, path) == [op |-> op, path |-> path]

\* A mutant of HandleGitCommand: the check that the repository exists is
\* left out
HandleGitCommand_NoExistsCheck(command, fs) ==
    LET parts == SplitWhitespace(command)
    IN  IF Len(parts) < 2
        THEN [ act |-> "reply", fsOps |-> <<>>,
               out |-> Reply(Text("Invalid git command\n", <<>>), 1) ]
        ELSE
          LET git_cmd   == parts[1]
              unquoted  == TrimMatches(TrimMatches(parts[2], "'"), "\"")
              repo_path == TrimStartMatches(unquoted, "/")
              full_path == PathJoin(ReposDir, repo_path)
          IN  IF ~PathStartsWith(full_path, ReposDir)
              THEN [ act |-> "reply", fsOps |-> <<>>,
                     out |-> Reply(Text("Invalid repository path\n", <<>>), 1) ]
              ELSE [ act |-> "spawn",
                     fsOps |-> << FsOp("spawn", full_path) >>,
                     out |-> <<>>, prog |-> git_cmd, arg |-> full_path ]

\* SessionHandler::handle_git_command up to the spawn
HandleGitCommand(command, fs) ==
    LET parts == SplitWhitespace(command)
    IN  IF Len(parts) < 2
        THEN [ act |-> "reply", fsOps |-> <<>>,
               out |-> Reply(Text("Invalid git command\n", <<>>), 1) ]
        ELSE
          LET git_cmd   == parts[1]
              unquoted  == TrimMatches(TrimMatches(parts[2], "'"), "\"")
              repo_path == TrimStartMatches(unquoted, "/")
              full_path == PathJoin(ReposDir, repo_path)
          IN  IF ~PathStartsWith(full_path, ReposDir)
              THEN [ act |-> "reply", fsOps |-> <<>>,
                     out |-> Reply(Text("Invalid repository path\n", <<>>), 1) ]
              ELSE IF ~PathExists(fs, full_path)
              THEN [ act |-> "reply",
                     fsOps |-> << FsOp("exists", full_path) >>,
                     out |-> Reply(Text("Repository not found: {}\n", repo_path), 1) ]
              ELSE [ act |-> "spawn",
                     fsOps |-> << FsOp("exists", full_path), FsOp("spawn", full_path) >>,
                     out |-> <<>>, prog |-> git_cmd, arg |-> full_path ]

\* A mutant of HandleCreateRepo: the path is made from the name as given
HandleCreateRepo_RawPath(command, fs) ==
    LET parts == SplitWhitespace(command)
    IN  IF Len(parts) < 2
        THEN [ act |-> "reply", fsOps |-> <<>>,
               out |-> Reply(Text("Usage: agito-create-repo <repo-name>\n", <<>>), 1) ]
        ELSE
          LET repo_name == IF EndsWith(parts[2], DotGit) THEN parts[2]
                           ELSE parts[2] \o DotGit
              repo_path == PathJoin(ReposDir, parts[2])
          IN  IF Contains(repo_name, <<".", ".">>) \/ Contains(repo_name, <<"/">>)
              THEN [ act |-> "reply", fsOps |-> <<>>,
                     out |-> Reply(Text("Invalid repository name\n", <<>>), 1) ]
              ELSE IF PathExists(fs, repo_path)
              THEN [ act |-> "reply",
                     fsOps |-> << FsOp("exists", repo_path) >>,
                     out |-> Reply(Text("Repository already exists: {}\n", repo_name), 1) ]
              ELSE [ act |-> "create",
                     fsOps |-> << FsOp("exists", repo_path), FsOp("create", repo_path) >>,
                     out |-> <<>>, name |-> repo_name, path |-> repo_path ]

\* A mutant of HandleCreateRepo: the suffix is not added
HandleCreateRepo_NoSuffix(command, fs) ==
    LET parts == SplitWhitespace(command)
    IN  IF Len(parts) < 2
        THEN [ act |-> "reply", fsOps |-> <<>>,
               out |-> Reply(Text("Usage: agito-create-repo <repo-name>\n", <<>>), 1) ]
        ELSE
          LET repo_name == parts[2]
              repo_path == PathJoin(ReposDir, repo_name)
          IN  IF Contains(repo_name, <<".", ".">>) \/ Contains(repo_name, <<"/">>)
              THEN [ act |-> "reply", fsOps |-> <<>>,
                     out |-> Reply(Text("Invalid repository name\n", <<>>), 1) ]
              ELSE IF PathExists(fs, repo_path)
              THEN [ act |-> "reply",
                     fsOps |-> << FsOp("exists", repo_path) >>,
                     out |-> Reply(Text("Repository already exists: {}\n", repo_name), 1) ]
              ELSE [ act |-> "create",
                     fsOps |-> << FsOp("exists", repo_path), FsOp("create", repo_path) >>,
                     out |-> <<>>, name |-> repo_name, path |-> repo_path ]

\* A mutant of HandleCreateRepo: the name is not validated
HandleCreateRepo_NoValidation(command, fs) ==
    LET parts == SplitWhitespace(command)
    IN  IF Len(parts) < 2
        THEN [ act |-> "reply", fsOps |-> <<>>,
               out |-> Reply(Text("Usage: agito-create-repo <repo-name>\n", <<>>), 1) ]
        ELSE
          LET repo_name == IF EndsWith(parts[2], DotGit) THEN parts[2]
                           ELSE parts[2] \o DotGit
              repo_path == PathJoin(ReposDir, repo_name)
          IN  IF FALSE
              THEN [ act |-> "reply", fsOps |-> <<>>,
                     out |-> Reply(Text("Invalid repository name\n", <<>>), 1) ]
              ELSE IF PathExists(fs, repo_path)
              THEN [ act |-> "reply",
                     fsOps |-> << FsOp("exists", repo_path) >>,
                     out |-> Reply(Text("Repository already exists: {}\n", repo_name), 1) ]
              ELSE [ act |-> "create",
                     fsOps |-> << FsOp("exists", repo_path), FsOp("create", repo_path) >>,
                     out |-> <<>>, name |-> repo_name, path |-> repo_path ]

\* SessionHandler::handle_create_repo up to the call of init_bare_repo
HandleCreateRepo(command, fs) ==
    LET parts == SplitWhitespace(command)
    IN  IF Len(parts) < 2
        THEN [ act |-> "reply", fsOps |-> <<>>,
               out |-> Reply(Text("Usage: agito-create-repo <repo-name>\n", <<>>), 1) ]
        ELSE
          LET repo_name == IF EndsWith(parts[2], DotGit) THEN parts[2]
                           ELSE parts[2] \o DotGit
              repo_path == PathJoin(ReposDir, repo_name)
          IN  IF Contains(repo_name, <<".", ".">>) \/ Contains(repo_name, <<"/">>)
              THEN [ act |-> "reply", fsOps |-> <<>>,
                     out |-> Reply(Text("Invalid repository name\n", <<>>), 1) ]
              ELSE IF PathExists(fs, repo_path)
              THEN [ act |-> "reply",
                     fsOps |-> << FsOp("exists", repo_path) >>,
                     out |-> Reply(Text("Repository already exists: {}\n", repo_name), 1) ]
              ELSE [ act |-> "create",
                     fsOps |-> << FsOp("exists", repo_path), FsOp("create", repo_path) >>,
                     out |-> <<>>, name |-> repo_name, path |-> repo_path ]

\* The branch of exec_request a command takes
Route(command) ==
    IF StartsWith(command, GitUploadPack) \/ StartsWith(command, GitReceivePack)
    THEN "git"
    ELSE IF StartsWith(command, AgitoCreateRepo) THEN "create" ELSE "unknown"

\* SessionHandler::exec_request
Dispatch(command, fs) ==
    IF Route(command) = "git" THEN HandleGitCommand(command, fs)
    ELSE IF Route(command) = "create" THEN HandleCreateRepo(command, fs)
    ELSE [ act |-> "reply", fsOps |-> <<>>,
           out |-> Reply(Text("Unknown command: {}\n", command), 1) ]

\* ------------------------------------------------------------------------
\* The channel table (git_processes) and the handle of the session
\* ------------------------------------------------------------------------

\* HashMap::insert(channel, tx): a sender already stored for the channel is
\* replaced, and so dropped
Register(gp, c, p) == [gp EXCEPT ![c] = p]

\* A mutant of Remove: the whole table is cleared
Remove_Clear(gp, c) == [d \in Channels |-> NoPid]

\* HashMap::remove(&channel)
Remove(gp, c) == [gp EXCEPT ![c] = NoPid]

\* The sender of p is alive while the table holds it; the table dies with
\* the handler when the session ends
SenderAlive(gp, ps, p) == gp[ps[p].chan] = p

\* A mutant of SendToSink: the chunk jumps the queue
SendToSink_Front(ps, p, chunk) ==
    IF ps[p].stdinPc = "done" THEN ps
    ELSE [ps EXCEPT ![p].rxQueue = <<chunk>> \o @]

\* UnboundedSender::send: queued unless the receiver has been dropped
SendToSink(ps, p, chunk) ==
    IF ps[p].stdinPc = "done" THEN ps
    ELSE [ps EXCEPT ![p].rxQueue = Append(@, chunk)]

\* A mutant of HandlerData: without a sender for the channel, the chunk
\* goes to the sender of another channel
HandlerData_AnySender(gp, ps, c, chunk) ==
    IF gp[c] # NoPid THEN SendToSink(ps, gp[c], chunk)
    ELSE IF \E d \in Channels : gp[d] # NoPid
         THEN SendToSink(ps, gp[CHOOSE d \in Channels : gp[d] # NoPid], chunk)
         ELSE ps

\* SessionHandler::data: forward to the sender registered for the channel
HandlerData(gp, ps, c, chunk) ==
    IF gp[c] # NoPid THEN SendToSink(ps, gp[c], chunk) ELSE ps

\* Handle::data / extended_data / exit_status_request / eof / close: the
\* message reaches the channel while the session runs; afterwards it fails
HandleSend(out, alive, c, msg) ==
    IF alive THEN [out EXCEPT ![c] = Append(@, msg)] ELSE out

\* A mutant of ExitStatusOf: a missing code is reported as success
ExitStatusOf_UnwrapZero(waitResult) ==
    IF waitResult[1] = "code" THEN waitResult[2] ELSE 0

\* status.code().unwrap_or(1), and 1 when wait() itself failed
ExitStatusOf(waitResult) ==
    IF waitResult[1] = "code" THEN waitResult[2] ELSE 1

\* Outcomes of child.wait(): an exit code, death by signal (no code), or
\* an error of wait
WaitResults == { <<"code", 0>>, <<"code", 2>>, <<"signal", 0>>, <<"error", 0>> }

\* The locations create_dir_all(path) makes sure exist
DirsOf(path) ==
    LET loc == Normalize(path)
    IN  { SubSeq(loc, 1, k) : k \in 1..Len(loc) }

\* The session ends: the handler and its table are dropped
EndSession ==
    /\ sessionAlive' = FALSE
    /\ git_processes' = [c \in Channels |-> NoPid]

\* ------------------------------------------------------------------------
\* Events of the transport: one handler call each
\* ------------------------------------------------------------------------

\* A mutant of AuthAttempt: the result for a key is remembered from the
\* attempt before
AuthAttempt_Cached(user, public_key) ==
    /\ sessionAlive
    /\ LET result == IF auth.key = public_key /\ auth.result # "none"
                     THEN auth.result
                     ELSE AuthPublickey(authorized_keys, user, public_key)
       IN  /\ auth' = [user |-> user, key |-> public_key, result |-> result,
                       prev |-> <<auth.key, auth.result>>]
           /\ sessionAlive' = (result # "error")
    /\ UNCHANGED <<chanStatus, git_processes, chanOut, files, procs,
                   execCount, sentCount, last, authorized_keys, peer>>

\* auth_publickey(user, public_key); an error ends the session
AuthAttempt(user, public_key) ==
    /\ sessionAlive
    /\ LET result == AuthPublickey(authorized_keys, user, public_key)
       IN  /\ auth' = [user |-> user, key |-> public_key, result |-> result,
                       prev |-> <<auth.key, auth.result>>]
           /\ sessionAlive' = (result # "error")
    /\ UNCHANGED <<chanStatus, git_processes, chanOut, files, procs,
                   execCount, sentCount, last, authorized_keys, peer>>

\* The lines an administrator adds: a key, the other key, a key commented
\* out
EditLines == { KeyLine, <<"t", " ", "B">>, <<"#", "t", " ", "A">> }

\* The stores one change of the file by its administrator leads to: the
\* file removed or made unreadable, created empty, a line added at its end
\* or its last line removed
EditsOf(store) ==
    IF ~store.exists THEN { StoreOf(<<>>) }
    ELSE IF ~store.readable
    THEN { [exists |-> FALSE, readable |-> FALSE, text |-> <<>>] }
    ELSE LET lines == Lines(store.text)
         IN  { [exists |-> FALSE, readable |-> FALSE, text |-> <<>>],
               [exists |-> TRUE, readable |-> FALSE, text |-> <<>>] }
             \cup (IF Len(lines) < MaxLines
                   THEN { StoreOf(Append(lines, l)) : l \in EditLines }
                   ELSE {})
             \cup (IF lines # <<>>
                   THEN { StoreOf(SubSeq(lines, 1, Len(lines) - 1)) }
                   ELSE {})

\* The file at authorized_keys_path is changed between two attempts
StoreEdit(store) ==
    /\ store \in EditsOf(authorized_keys)
    /\ authorized_keys' = store
    /\ UNCHANGED <<chanStatus, sessionAlive, git_processes, chanOut, files,
                   procs, execCount, sentCount, last, auth, peer>>

\* channel_open_session
ChannelOpen(c) ==
    /\ sessionAlive
    /\ chanStatus[c] = "unopened"
    /\ chanStatus' = [chanStatus EXCEPT ![c] = "open"]
    /\ UNCHANGED <<sessionAlive, git_processes, chanOut, files, procs,
                   execCount, sentCount, last, authorized_keys, auth, peer>>

\* The subprocess and tasks handle_git_command starts
Spawned(c, prog, arg) ==
    [ NoProc EXCEPT !.state = "running", !.chan = c, !.prog = prog, !.arg = arg ]

\* A mutant of ExecRequest: a failed spawn is answered on the channel like
\* the other refusals
ExecRequest_SpawnFailureReplies(c, command) ==
    /\ sessionAlive
    /\ chanStatus[c] = "open"
    /\ execCount < MaxExec
    /\ execCount' = execCount + 1
    /\ LET d    == Dispatch(command, files)
           p    == Cardinality({q \in Pids : procs[q].state # "unused"}) + 1
           done(out, pid, failed) ==
               last' = [ chan |-> c, command |-> command, route |-> Route(command),
                         out |-> out, fsOps |-> d.fsOps, spawned |-> pid,
                         failed |-> failed ]
       IN  \/ /\ d.act = "reply"
              /\ chanOut' = [chanOut EXCEPT ![c] = @ \o d.out]
              /\ done(d.out, NoPid, FALSE)
              /\ UNCHANGED <<sessionAlive, git_processes, files, procs>>
           \/ /\ d.act = "spawn"
              \* Command::spawn succeeded: register the sender, start the tasks
              /\ p \in Pids
              /\ procs' = [procs EXCEPT ![p] = Spawned(c, d.prog, d.arg)]
              /\ git_processes' = Register(git_processes, c, p)
              /\ done(<<>>, p, FALSE)
              /\ UNCHANGED <<sessionAlive, chanOut, files>>
           \/ /\ d.act = "spawn"
              \* Command::spawn failed
              /\ LET out == Reply(Text("Failed to start: {}\n", <<>>), 1)
                 IN  /\ chanOut' = [chanOut EXCEPT ![c] = @ \o out]
                     /\ done(out, NoPid, TRUE)
              /\ UNCHANGED <<sessionAlive, git_processes, files, procs>>
           \/ /\ d.act = "create"
              \* init_bare_repo succeeded
              /\ files' = files \cup DirsOf(d.path)
              /\ LET out == Reply(Text("Repository created: {}\n", d.name), 0)
                 IN  /\ chanOut' = [chanOut EXCEPT ![c] = @ \o out]
                     /\ done(out, NoPid, FALSE)
              /\ UNCHANGED <<sessionAlive, git_processes, procs>>
           \/ /\ d.act = "create"
              \* init_bare_repo failed, before or after create_dir_all
              /\ \E made \in {{}, DirsOf(d.path)} : files' = files \cup made
              /\ LET out == Reply(Text("Failed to create repository: {}\n", <<>>), 1)
                 IN  /\ chanOut' = [chanOut EXCEPT ![c] = @ \o out]
                     /\ done(out, NoPid, FALSE)
              /\ UNCHANGED <<sessionAlive, git_processes, procs>>
    /\ UNCHANGED <<chanStatus, sentCount, authorized_keys, auth, peer>>

\* A mutant of ExecRequest: the sender is not registered by the handler
ExecRequest_NoRegister(c, command) ==
    /\ sessionAlive
    /\ chanStatus[c] = "open"
    /\ execCount < MaxExec
    /\ execCount' = execCount + 1
    /\ LET d    == Dispatch(command, files)
           p    == Cardinality({q \in Pids : procs[q].state # "unused"}) + 1
           done(out, pid, failed) ==
               last' = [ chan |-> c, command |-> command, route |-> Route(command),
                         out |-> out, fsOps |-> d.fsOps, spawned |-> pid,
                         failed |-> failed ]
       IN  \/ /\ d.act = "reply"
              /\ chanOut' = [chanOut EXCEPT ![c] = @ \o d.out]
              /\ done(d.out, NoPid, FALSE)
              /\ UNCHANGED <<sessionAlive, git_processes, files, procs>>
           \/ /\ d.act = "spawn"
              \* Command::spawn succeeded: register the sender, start the tasks
              /\ p \in Pids
              /\ procs' = [procs EXCEPT ![p] = Spawned(c, d.prog, d.arg)]
              /\ git_processes' = git_processes
              /\ done(<<>>, p, FALSE)
              /\ UNCHANGED <<sessionAlive, chanOut, files>>
           \/ /\ d.act = "spawn"
              \* Command::spawn failed: `?` returns the error to the session
              /\ EndSession
              /\ done(<<>>, NoPid, TRUE)
              /\ UNCHANGED <<chanOut, files, procs>>
           \/ /\ d.act = "create"
              \* init_bare_repo succeeded
              /\ files' = files \cup DirsOf(d.path)
              /\ LET out == Reply(Text("Repository created: {}\n", d.name), 0)
                 IN  /\ chanOut' = [chanOut EXCEPT ![c] = @ \o out]
                     /\ done(out, NoPid, FALSE)
              /\ UNCHANGED <<sessionAlive, git_processes, procs>>
           \/ /\ d.act = "create"
              \* init_bare_repo failed, before or after create_dir_all
              /\ \E made \in {{}, DirsOf(d.path)} : files' = files \cup made
              /\ LET out == Reply(Text("Failed to create repository: {}\n", <<>>), 1)
                 IN  /\ chanOut' = [chanOut EXCEPT ![c] = @ \o out]
                     /\ done(out, NoPid, FALSE)
              /\ UNCHANGED <<sessionAlive, git_processes, procs>>
    /\ UNCHANGED <<chanStatus, sentCount, authorized_keys, auth, peer>>

\* exec_request(channel, data)
ExecRequest(c, command) ==
    /\ sessionAlive
    /\ chanStatus[c] = "open"
    /\ execCount < MaxExec
    /\ execCount' = execCount + 1
    /\ LET d    == Dispatch(command, files)
           p    == Cardinality({q \in Pids : procs[q].state # "unused"}) + 1
           done(out, pid, failed) ==
               last' = [ chan |-> c, command |-> command, route |-> Route(command),
                         out |-> out, fsOps |-> d.fsOps, spawned |-> pid,
                         failed |-> failed ]
       IN  \/ /\ d.act = "reply"
              /\ chanOut' = [chanOut EXCEPT ![c] = @ \o d.out]
              /\ done(d.out, NoPid, FALSE)
              /\ UNCHANGED <<sessionAlive, git_processes, files, procs>>
           \/ /\ d.act = "spawn"
              \* Command::spawn succeeded: register the sender, start the tasks
              /\ p \in Pids
              /\ procs' = [procs EXCEPT ![p] = Spawned(c, d.prog, d.arg)]
              /\ git_processes' = Register(git_processes, c, p)
              /\ done(<<>>, p, FALSE)
              /\ UNCHANGED <<sessionAlive, chanOut, files>>
           \/ /\ d.act = "spawn"
              \* Command::spawn failed: `?` returns the error to the session
              /\ EndSession
              /\ done(<<>>, NoPid, TRUE)
              /\ UNCHANGED <<chanOut, files, procs>>
           \/ /\ d.act = "create"
              \* init_bare_repo succeeded
              /\ files' = files \cup DirsOf(d.path)
              /\ LET out == Reply(Text("Repository created: {}\n", d.name), 0)
                 IN  /\ chanOut' = [chanOut EXCEPT ![c] = @ \o out]
                     /\ done(out, NoPid, FALSE)
              /\ UNCHANGED <<sessionAlive, git_processes, procs>>
           \/ /\ d.act = "create"
              \* init_bare_repo failed, before or after create_dir_all
              /\ \E made \in {{}, DirsOf(d.path)} : files' = files \cup made
              /\ LET out == Reply(Text("Failed to create repository: {}\n", <<>>), 1)
                 IN  /\ chanOut' = [chanOut EXCEPT ![c] = @ \o out]
                     /\ done(out, NoPid, FALSE)
              /\ UNCHANGED <<sessionAlive, git_processes, procs>>
    /\ UNCHANGED <<chanStatus, sentCount, authorized_keys, auth, peer>>

\* data(channel, data): the client sends the next n bytes of its stream
Data(c, n) ==
    /\ sessionAlive
    /\ chanStatus[c] = "open"
    /\ sentCount + n <= MaxData
    /\ LET chunk == [i \in 1..n |-> sentCount + i]
           forwarded == HandlerData(git_processes, procs, c, chunk)
       IN  procs' = IF git_processes[c] # NoPid
                    THEN [forwarded EXCEPT ![git_processes[c]].expected = @ \o chunk]
                    ELSE forwarded
    /\ sentCount' = sentCount + n
    /\ UNCHANGED <<chanStatus, sessionAlive, git_processes, chanOut, files,
                   execCount, last, authorized_keys, auth, peer>>

\* A mutant of ChannelEof: the subprocess of the channel is killed as well
ChannelEof_Kills(c) ==
    /\ sessionAlive
    /\ chanStatus[c] = "open"
    /\ git_processes' = Remove(git_processes, c)
    /\ procs' = IF git_processes[c] = NoPid THEN procs
                ELSE [procs EXCEPT ![git_processes[c]].state = "exited"]
    /\ UNCHANGED <<chanStatus, sessionAlive, chanOut, files,
                   execCount, sentCount, last, authorized_keys, auth, peer>>

\* channel_eof(channel)
ChannelEof(c) ==
    /\ sessionAlive
    /\ chanStatus[c] = "open"
    /\ git_processes' = Remove(git_processes, c)
    /\ UNCHANGED <<chanStatus, sessionAlive, chanOut, files, procs,
                   execCount, sentCount, last, authorized_keys, auth, peer>>

\* channel_close(channel)
ChannelClose(c) ==
    /\ sessionAlive
    /\ chanStatus[c] = "open"
    /\ git_processes' = Remove(git_processes, c)
    /\ chanStatus' = [chanStatus EXCEPT ![c] = "closed"]
    /\ UNCHANGED <<sessionAlive, chanOut, files, procs, execCount, sentCount, last, authorized_keys, auth,
            peer>>

\* The connection is lost: run_stream returns and the handler is dropped
ConnDrop ==
    /\ sessionAlive
    /\ EndSession
    /\ UNCHANGED <<chanStatus, chanOut, files, procs, execCount, sentCount, last, authorized_keys, auth,
            peer>>

\* ------------------------------------------------------------------------
\* A second connection: the same handlers on its own SessionHandler
\* ------------------------------------------------------------------------

\* The variables of the first connection
connVars == <<chanStatus, sessionAlive, git_processes, chanOut, files, procs,
              execCount, sentCount, last, authorized_keys, auth>>

\* exec_request on the second connection, spawn succeeded: its sender is
\* registered in the table of its own handler
PeerExec(c) ==
    /\ LET p == Cardinality({q \in Pids : peer.procs[q].state # "unused"}) + 1
       IN  /\ p \in Pids
           /\ peer' = [peer EXCEPT
                  !.procs[p] = Spawned(c, GitUploadPack, <<"a", ".", "g", "i", "t">>),
                  !.git_processes = Register(peer.git_processes, c, p)]
    /\ UNCHANGED connVars

\* A mutant of PeerData: the table is one for all connections
PeerData_SharedTable(c, n) ==
    /\ peer.sentCount + n <= MaxData
    /\ LET chunk == [i \in 1..n |-> 200 + peer.sentCount + i]
       IN  /\ procs' = HandlerData(git_processes, procs, c, chunk)
           /\ peer' = [peer EXCEPT !.sentCount = @ + n]
    /\ UNCHANGED <<chanStatus, sessionAlive, git_processes, chanOut, files,
                   execCount, sentCount, last, authorized_keys, auth>>

\* data(channel, data) on the second connection: its client's bytes are
\* 201, 202, ...
PeerData(c, n) ==
    /\ peer.sentCount + n <= MaxData
    /\ LET chunk == [i \in 1..n |-> 200 + peer.sentCount + i]
       IN  peer' = [peer EXCEPT
              !.procs = HandlerData(peer.git_processes, peer.procs, c, chunk),
              !.sentCount = @ + n]
    /\ UNCHANGED connVars

\* channel_eof / channel_close on the second connection
PeerRemove(c) ==
    /\ peer.git_processes[c] # NoPid
    /\ peer' = [peer EXCEPT !.git_processes = Remove(peer.git_processes, c)]
    /\ UNCHANGED connVars

\* handle_create_repo on the second connection, up to and with the
\* exists() check: a refusal is sent, or init_bare_repo is next. The tasks
\* of two connections run on the threads of the runtime, so handlers of
\* the other connection may run between this step and the next.
PeerCreateCheck(command) ==
    /\ peer.create.pc = "idle"
    /\ LET d == HandleCreateRepo(command, files)
       IN  peer' = IF d.act = "reply"
                   THEN [peer EXCEPT !.create.pc = "done", !.out = @ \o d.out]
                   ELSE [peer EXCEPT !.create = [pc |-> "init", name |-> d.name,
                                                 path |-> d.path]]
    /\ UNCHANGED connVars

\* init_bare_repo and the reply, on the second connection: create_dir_all
\* and `git init --bare` succeed on a directory that exists already
PeerCreateInit ==
    /\ peer.create.pc = "init"
    /\ \/ /\ files' = files \cup DirsOf(peer.create.path)
          /\ peer' = [peer EXCEPT
                 !.create.pc = "done",
                 !.out = @ \o Reply(Text("Repository created: {}\n",
                                         peer.create.name), 0)]
       \/ /\ \E made \in {{}, DirsOf(peer.create.path)} : files' = files \cup made
          /\ peer' = [peer EXCEPT
                 !.create.pc = "done",
                 !.out = @ \o Reply(Text("Failed to create repository: {}\n",
                                         <<>>), 1)]
    /\ UNCHANGED <<chanStatus, sessionAlive, git_processes, chanOut, procs,
                   execCount, sentCount, last, authorized_keys, auth>>

\* ------------------------------------------------------------------------
\* The subprocess
\* ------------------------------------------------------------------------

Started(p) == procs[p].state # "unused"

\* The subprocess writes its next byte to standard output
ProcWriteStdout(p) ==
    /\ procs[p].state = "running"
    /\ procs[p].outCount < MaxOut
    /\ procs' = [procs EXCEPT ![p].outCount = @ + 1,
                              ![p].stdoutPipe = Append(@, procs[p].outCount + 1)]
    /\ UNCHANGED <<chanStatus, sessionAlive, git_processes, chanOut, files,
                   execCount, sentCount, last, authorized_keys, auth, peer>>

\* The subprocess writes its next byte to standard error (bytes 101, 102, ...)
ProcWriteStderr(p) ==
    /\ procs[p].state = "running"
    /\ procs[p].errCount < MaxErr
    /\ procs' = [procs EXCEPT ![p].errCount = @ + 1,
                              ![p].stderrPipe = Append(@, 100 + procs[p].errCount + 1)]
    /\ UNCHANGED <<chanStatus, sessionAlive, git_processes, chanOut, files,
                   execCount, sentCount, last, authorized_keys, auth, peer>>

\* The subprocess terminates
ProcExit(p) ==
    /\ procs[p].state = "running"
    /\ procs' = [procs EXCEPT ![p].state = "exited"]
    /\ UNCHANGED <<chanStatus, sessionAlive, git_processes, chanOut, files,
                   execCount, sentCount, last, authorized_keys, auth, peer>>

\* ------------------------------------------------------------------------
\* Task 1: forward the queue of the channel to the subprocess's stdin
\* ------------------------------------------------------------------------

\* rx.recv() returned a chunk and write_all wrote it, or failed because
\* the subprocess is gone
StdinWrite(p) ==
    /\ Started(p)
    /\ procs[p].stdinPc = "recv"
    /\ procs[p].rxQueue # <<>>
    /\ procs' =
         IF procs[p].state = "running"
         THEN [procs EXCEPT ![p].stdinWritten = @ \o Head(procs[p].rxQueue),
                            ![p].rxQueue = Tail(@)]
         ELSE [procs EXCEPT ![p].stdinErr = TRUE,
                            ![p].stdinPc = "shutdown",
                            ![p].rxQueue = Tail(@)]
    /\ UNCHANGED <<chanStatus, sessionAlive, git_processes, chanOut, files,
                   execCount, sentCount, last, authorized_keys, auth, peer>>

\* A mutant of StdinRecvNone: the task leaves its loop as soon as the sender
\* is dropped, whatever is still queued
StdinRecvNone_QueueIgnored(p) ==
    /\ Started(p)
    /\ procs[p].stdinPc = "recv"
    /\ ~SenderAlive(git_processes, procs, p)
    /\ procs' = [procs EXCEPT ![p].stdinPc = "shutdown"]
    /\ UNCHANGED <<chanStatus, sessionAlive, git_processes, chanOut, files,
                   execCount, sentCount, last, authorized_keys, auth, peer>>

\* rx.recv() returned None: the queue is empty and the sender was dropped
StdinRecvNone(p) ==
    /\ Started(p)
    /\ procs[p].stdinPc = "recv"
    /\ procs[p].rxQueue = <<>>
    /\ ~SenderAlive(git_processes, procs, p)
    /\ procs' = [procs EXCEPT ![p].stdinPc = "shutdown"]
    /\ UNCHANGED <<chanStatus, sessionAlive, git_processes, chanOut, files,
                   execCount, sentCount, last, authorized_keys, auth, peer>>

\* stdin.shutdown(), then the task ends and drops rx
StdinShutdown(p) ==
    /\ Started(p)
    /\ procs[p].stdinPc = "shutdown"
    /\ procs' = [procs EXCEPT ![p].stdinShutdowns = @ + 1,
                              ![p].stdinPc = "done",
                              ![p].rxQueue = <<>>]
    /\ UNCHANGED <<chanStatus, sessionAlive, git_processes, chanOut, files,
                   execCount, sentCount, last, authorized_keys, auth, peer>>

\* ------------------------------------------------------------------------
\* Tasks 2 and 3: relay stdout and stderr to the channel
\* ------------------------------------------------------------------------

\* The bytes one read() returns from a pipe holding `pipe`
ReadLen(pipe) == IF Len(pipe) < ReadBuf THEN Len(pipe) ELSE ReadBuf

\* stdout.read(&mut buf): Ok(n) with the bytes at hand, or Ok(0) when the
\* pipe is empty and its writer has exited
StdoutRead(p) ==
    /\ Started(p)
    /\ procs[p].stdoutPc = "read"
    /\ \/ /\ procs[p].stdoutPipe # <<>>
          /\ LET n == ReadLen(procs[p].stdoutPipe)
             IN  procs' = [procs EXCEPT
                     ![p].stdoutBuf = SubSeq(procs[p].stdoutPipe, 1, n),
                     ![p].stdoutPipe = SubSeq(@, n + 1, Len(@)),
                     ![p].stdoutPc = "send"]
       \/ /\ procs[p].stdoutPipe = <<>>
          /\ procs[p].state = "exited"
          /\ procs' = [procs EXCEPT ![p].stdoutPc = "done"]
    /\ UNCHANGED <<chanStatus, sessionAlive, git_processes, chanOut, files,
                   execCount, sentCount, last, authorized_keys, auth, peer>>

\* A mutant of StdoutMsg: the bytes go out on the error stream
StdoutMsg_AsExtended(p, bytes) == Msg("ext", p, bytes)

\* The message the stdout relay sends for the bytes it read: primary data
StdoutMsg(p, bytes) == Msg("data", p, bytes)

\* session_handle_stdout.data(channel, buf[..n]): break on an error
StdoutSend(p) ==
    /\ Started(p)
    /\ procs[p].stdoutPc = "send"
    /\ chanOut' = HandleSend(chanOut, sessionAlive, procs[p].chan,
                             StdoutMsg(p, procs[p].stdoutBuf))
    /\ procs' = [procs EXCEPT
            ![p].stdoutBuf = <<>>,
            ![p].stdoutErr = ~sessionAlive,
            ![p].stdoutPc = IF sessionAlive THEN "read" ELSE "done"]
    /\ UNCHANGED <<chanStatus, sessionAlive, git_processes, files,
                   execCount, sentCount, last, authorized_keys, auth, peer>>

\* stderr.read(&mut buf)
StderrRead(p) ==
    /\ Started(p)
    /\ procs[p].stderrPc = "read"
    /\ \/ /\ procs[p].stderrPipe # <<>>
          /\ LET n == ReadLen(procs[p].stderrPipe)
             IN  procs' = [procs EXCEPT
                     ![p].stderrBuf = SubSeq(procs[p].stderrPipe, 1, n),
                     ![p].stderrPipe = SubSeq(@, n + 1, Len(@)),
                     ![p].stderrPc = "send"]
       \/ /\ procs[p].stderrPipe = <<>>
          /\ procs[p].state = "exited"
          /\ procs' = [procs EXCEPT ![p].stderrPc = "done"]
    /\ UNCHANGED <<chanStatus, sessionAlive, git_processes, chanOut, files,
                   execCount, sentCount, last, authorized_keys, auth, peer>>

\* A mutant of StderrMsg: the bytes go out as primary data
StderrMsg_AsData(p, bytes) == Msg("data", p, bytes)

\* The message the stderr relay sends for the bytes it read: extended data
\* with code 1
StderrMsg(p, bytes) == Msg("ext", p, bytes)

\* session_handle_stderr.extended_data(channel, 1, buf[..n])
StderrSend(p) ==
    /\ Started(p)
    /\ procs[p].stderrPc = "send"
    /\ chanOut' = HandleSend(chanOut, sessionAlive, procs[p].chan,
                             StderrMsg(p, procs[p].stderrBuf))
    /\ procs' = [procs EXCEPT
            ![p].stderrBuf = <<>>,
            ![p].stderrPc = IF sessionAlive THEN "read" ELSE "done"]
    /\ UNCHANGED <<chanStatus, sessionAlive, git_processes, files,
                   execCount, sentCount, last, authorized_keys, auth, peer>>

\* ------------------------------------------------------------------------
\* Task 4: wait for the subprocess, then exit status, eof, close
\* ------------------------------------------------------------------------

\* A mutant of ExitStatus: the task first joins the two relay tasks
ExitStatus_JoinsRelays(p, r) ==
    /\ procs[p].state = "exited"
    /\ procs[p].exitPc = "wait"
    /\ procs[p].stdoutPc = "done"
    /\ procs[p].stderrPc = "done"
    /\ chanOut' = HandleSend(chanOut, sessionAlive, procs[p].chan,
                             Msg("exit", p, ExitStatusOf(r)))
    /\ procs' = [procs EXCEPT ![p].exitPc = "eof", ![p].waitResult = r]
    /\ UNCHANGED <<chanStatus, sessionAlive, git_processes, files,
                   execCount, sentCount, last, authorized_keys, auth, peer>>

\* child.wait() returned r; exit_status_request(channel, code)
ExitStatus(p, r) ==
    /\ procs[p].state = "exited"
    /\ procs[p].exitPc = "wait"
    /\ chanOut' = HandleSend(chanOut, sessionAlive, procs[p].chan,
                             Msg("exit", p, ExitStatusOf(r)))
    /\ procs' = [procs EXCEPT ![p].exitPc = "eof", ![p].waitResult = r]
    /\ UNCHANGED <<chanStatus, sessionAlive, git_processes, files,
                   execCount, sentCount, last, authorized_keys, auth, peer>>

\* A mutant of ExitEof: end-of-stream is sent once the stdout relay has
\* finished
ExitEof_AfterRelay(p) ==
    /\ procs[p].exitPc = "eof"
    /\ procs[p].stdoutPc = "done"
    /\ chanOut' = HandleSend(chanOut, sessionAlive, procs[p].chan, Msg("eof", p, 0))
    /\ procs' = [procs EXCEPT ![p].exitPc = "close"]
    /\ UNCHANGED <<chanStatus, sessionAlive, git_processes, files,
                   execCount, sentCount, last, authorized_keys, auth, peer>>

\* session_handle_wait.eof(channel)
ExitEof(p) ==
    /\ procs[p].exitPc = "eof"
    /\ chanOut' = HandleSend(chanOut, sessionAlive, procs[p].chan, Msg("eof", p, 0))
    /\ procs' = [procs EXCEPT ![p].exitPc = "close"]
    /\ UNCHANGED <<chanStatus, sessionAlive, git_processes, files,
                   execCount, sentCount, last, authorized_keys, auth, peer>>

\* session_handle_wait.close(channel)
ExitClose(p) ==
    /\ procs[p].exitPc = "close"
    /\ chanOut' = HandleSend(chanOut, sessionAlive, procs[p].chan, Msg("close", p, 0))
    /\ procs' = [procs EXCEPT ![p].exitPc = "done"]
    /\ UNCHANGED <<chanStatus, sessionAlive, git_processes, files,
                   execCount, sentCount, last, authorized_keys, auth, peer>>

\* ------------------------------------------------------------------------
\* Specifications
\* ------------------------------------------------------------------------

\* The client and the transport, for the requests of BridgeCommands
Transport ==
    \/ \E c \in Channels : ChannelOpen(c)
    \/ \E c \in Channels, command \in BridgeCommands : ExecRequest(c, command)
    \/ \E c \in Channels : ChannelEof(c)
    \/ \E c \in Channels : ChannelClose(c)
    \/ ConnDrop

\* The client's data and the stdin-forward task
InputSide ==
    \/ \E c \in Channels, n \in 1..MaxData : Data(c, n)
    \/ \E p \in Pids : StdinWrite(p)
    \/ \E p \in Pids : StdinRecvNone(p)
    \/ \E p \in Pids : StdinShutdown(p)

\* The subprocess's standard output and its relay
StdoutSide ==
    \/ \E p \in Pids : ProcWriteStdout(p)
    \/ \E p \in Pids : StdoutRead(p)
    \/ \E p \in Pids : StdoutSend(p)

\* The subprocess's standard error and its relay
StderrSide ==
    \/ \E p \in Pids : ProcWriteStderr(p)
    \/ \E p \in Pids : StderrRead(p)
    \/ \E p \in Pids : StderrSend(p)

\* The subprocess terminates
Termination == \E p \in Pids : ProcExit(p)

\* The exit-wait task
ExitSide ==
    \/ \E p \in Pids, r \in WaitResults : ExitStatus(p, r)
    \/ \E p \in Pids : ExitEof(p)
    \/ \E p \in Pids : ExitClose(p)

\* The whole gateway on one connection
Next == Transport \/ InputSide \/ StdoutSide \/ StderrSide \/ Termination \/ ExitSide

Spec == Init /\ [][Next]_vars

\* The tasks of a subprocess share no state with one another but the
\* subprocess, the table and the channel's output, so the directions of the
\* bridge are explored one at a time, the others idle.

\* Client to subprocess: the stdin-forward task
\* (the requests are those that start a subprocess: a handler's reply
\* writes nothing towards a subprocess)
TransportInput ==
    \/ \E c \in Channels : ChannelOpen(c)
    \/ \E c \in Channels, command \in SpawnCommands : ExecRequest(c, command)
    \/ \E c \in Channels : ChannelEof(c)
    \/ \E c \in Channels : ChannelClose(c)
    \/ ConnDrop

NextInput == TransportInput \/ InputSide \/ Termination

SpecInput == Init /\ [][NextInput]_vars

\* Subprocess to client: the stdout relay and the exit-wait task, for the
\* first subprocess of the connection, beside the handlers' own replies
OneSubprocess == Cardinality({p \in Pids : procs[p].state # "unused"}) <= 1

TransportOutput ==
    \/ \E c \in DispatchChannels : ChannelOpen(c)
    \/ \E c \in Channels, command \in BridgeCommands :
          ExecRequest(c, command) /\ OneSubprocess'
    \/ \E c \in Channels : ChannelEof(c)
    \/ \E c \in Channels : ChannelClose(c)
    \/ ConnDrop

NextOutput == TransportOutput \/ StdoutSide \/ Termination \/ ExitSide

SpecOutput == Init /\ [][NextOutput]_vars

\* Client to subprocess when the client ends its input on a Streaming
\* channel: one subprocess, and the EOF or close that takes its sender out of
\* the table arrives while it runs; the session stays up
EofWhileStreaming(c) ==
    IF git_processes[c] = NoPid THEN TRUE
    ELSE procs[git_processes[c]].state = "running"

TransportEof ==
    \/ \E c \in Channels : ChannelOpen(c)
    \/ \E c \in Channels, command \in SpawnCommands :
          ExecRequest(c, command) /\ OneSubprocess' /\ sessionAlive'
    \/ \E c \in Channels : EofWhileStreaming(c) /\ ChannelEof(c)
    \/ \E c \in Channels : EofWhileStreaming(c) /\ ChannelClose(c)

NextEof == TransportEof \/ InputSide \/ Termination

SpecEof == Init /\ [][NextEof]_vars

\* The channel after the client has ended its input: one subprocess on
\* one channel; the client sends a chunk after its EOF, and the subprocess,
\* having seen its standard input shut down, writes its output and
\* terminates with exit code 0; the connection stays up
TransportCancel ==
    \/ \E c \in DispatchChannels : ChannelOpen(c)
    \/ \E c \in Channels, command \in SpawnCommands :
          ExecRequest(c, command) /\ OneSubprocess' /\ sessionAlive'
    \/ \E c \in Channels : ChannelEof(c)
    \/ \E c \in Channels : ChannelClose(c)

InputAfterEof ==
    \/ \E c \in Channels, n \in {MaxData} :
          /\ \E p \in Pids : Started(p) /\ procs[p].chan = c
          /\ git_processes[c] = NoPid
          /\ Data(c, n)
    \/ \E p \in Pids : StdinRecvNone(p)
    \/ \E p \in Pids : StdinShutdown(p)

SubprocessAfterShutdown ==
    \/ \E p \in Pids : procs[p].stdinPc = "done" /\ ProcWriteStdout(p)
    \/ \E p \in Pids : procs[p].stdinPc = "done" /\ ProcWriteStderr(p)
    \/ \E p \in Pids : procs[p].stdinPc = "done" /\ ProcExit(p)

Relays ==
    \/ \E p \in Pids : StdoutRead(p)
    \/ \E p \in Pids : StdoutSend(p)
    \/ \E p \in Pids : StderrRead(p)
    \/ \E p \in Pids : StderrSend(p)

\* The exit-wait task of a subprocess that exits with code 0
ExitSideClean ==
    \/ \E p \in Pids : ExitStatus(p, <<"code", 0>>)
    \/ \E p \in Pids : ExitEof(p)
    \/ \E p \in Pids : ExitClose(p)

NextCancel ==
    TransportCancel \/ InputAfterEof \/ SubprocessAfterShutdown \/ Relays
                    \/ ExitSideClean

SpecCancel == Init /\ [][NextCancel]_vars

\* Subprocess to client on both streams: one subprocess that writes to its
\* standard output and standard error and exits with code 0, the two
\* relays and the exit-wait task; the connection may be lost
TransportStreams ==
    \/ \E c \in DispatchChannels : ChannelOpen(c)
    \/ \E c \in Channels, command \in SpawnCommands :
          ExecRequest(c, command) /\ OneSubprocess' /\ sessionAlive'
    \/ ConnDrop

NextStreams ==
    TransportStreams \/ StdoutSide \/ StderrSide \/ Termination \/ ExitSideClean

SpecStreams == Init /\ [][NextStreams]_vars

\* Two connections, two channels on the first: the handlers that register,
\* send and remove, on both connections
TransportIsolation ==
    \/ \E c \in Channels : ChannelOpen(c)
    \/ \E c \in Channels, command \in SpawnCommands :
          ExecRequest(c, command) /\ sessionAlive'
    \/ \E c \in Channels, n \in 1..MaxData : Data(c, n)
    \/ \E c \in Channels : ChannelEof(c)
    \/ \E c \in Channels : ChannelClose(c)

\* (the second connection runs one subprocess and its client sends one
\* chunk)
PeerSide ==
    \/ \E c \in DispatchChannels :
          (\A p \in Pids : peer.procs[p].state = "unused") /\ PeerExec(c)
    \/ \E c \in DispatchChannels, n \in {MaxData} : PeerData(c, n)
    \/ \E c \in DispatchChannels : PeerRemove(c)

NextIsolation == TransportIsolation \/ PeerSide

SpecIsolation == Init /\ [][NextIsolation]_vars

\* Progress of the exit-wait task: one subprocess on one channel with its
\* stdin-forward, stdout relay and exit-wait tasks (the stderr relay is the
\* stdout relay's twin), a client that may or may not send EOF or close and sends no
\* data, so that the stdin-forward task waits in recv; the connection stays
\* up. Only the exit-wait task is scheduled fairly: a spawned tokio task
\* whose awaits (child.wait, the three calls on the handle) complete.
StdinWaiting ==
    \/ \E p \in Pids : StdinRecvNone(p)
    \/ \E p \in Pids : StdinShutdown(p)

NextLive ==
    TransportCancel \/ StdinWaiting \/ StdoutSide \/ Termination \/ ExitSide

ExitWaitFair ==
    \A p \in Pids :
        /\ WF_vars(\E r \in WaitResults : ExitStatus(p, r))
        /\ WF_vars(ExitEof(p))
        /\ WF_vars(ExitClose(p))

SpecLive == Init /\ [][NextLive]_vars /\ ExitWaitFair

\* Repository creation on two connections at once
CreateCommands ==
    { AgitoCreateRepo \o Sp \o <<"b">>,
      AgitoCreateRepo \o Sp \o <<"b">> \o DotGit,
      AgitoCreateRepo \o Sp \o <<"a">>,
      AgitoCreateRepo \o Sp \o <<"c", ".">>,
      AgitoCreateRepo }

NextCreate ==
    \/ \E c \in Channels : ChannelOpen(c)
    \/ \E c \in Channels, command \in CreateCommands : ExecRequest(c, command)
    \/ \E command \in CreateCommands : PeerCreateCheck(command)
    \/ PeerCreateInit

SpecCreate == Init /\ [][NextCreate]_vars

\* Authentication alone, for every store of Stores
NextAuth == \E user \in Users, public_key \in PublicKeys : AuthAttempt(user, public_key)

SpecAuth == InitAuth /\ [][NextAuth]_vars

\* Authentication while the store changes between the attempts
InitAuthEdit ==
    /\ InitConn
    /\ authorized_keys = StoreOf(<< KeyLine >>)
    /\ auth = NoAuth

NextAuthEdit ==
    \/ \E user \in Users, public_key \in PublicKeys : AuthAttempt(user, public_key)
    \/ \E store \in Stores : StoreEdit(store)

SpecAuthEdit == InitAuthEdit /\ [][NextAuthEdit]_vars

\* The handlers alone, for every request of Commands
NextDispatch ==
    \/ \E c \in DispatchChannels : ChannelOpen(c)
    \/ \E c \in Channels, command \in Commands : ExecRequest(c, command)
    \/ \E c \in Channels : ChannelEof(c)
    \/ \E c \in Channels : ChannelClose(c)

SpecDispatch == Init /\ [][NextDispatch]_vars

\* ------------------------------------------------------------------------
\* Vocabulary of the properties, stated from the specification's contracts
\* ------------------------------------------------------------------------

IsPrefix(a, b) == Len(a) <= Len(b) /\ SubSeq(b, 1, Len(a)) = a

RECURSIVE Flatten(_)
Flatten(seqs) == IF seqs = <<>> THEN <<>> ELSE Head(seqs) \o Flatten(Tail(seqs))

\* The whitespace-delimited tokens of an exec request
Tokens(command) == SplitWhitespace(command)

\* A pack-protocol request: a known verb as first token, and a second token
IsPackRequest(command) ==
    /\ Len(Tokens(command)) >= 2
    /\ Tokens(command)[1] \in {GitUploadPack, GitReceivePack}

\* The repository reference of a request: its second token without quotes
\* and without leading separators
RepoRef(command) ==
    TrimStartMatches(TrimMatches(TrimMatches(Tokens(command)[2], "'"), "\""), "/")

\* The reference has a parent-directory segment
HasParentSegment(ref) ==
    \E i \in DOMAIN SplitOn(ref, {"/"}, <<>>, <<>>) :
        SplitOn(ref, {"/"}, <<>>, <<>>)[i] = ParentDir

\* The reference, taken below the root, names a location outside the root
EscapesRoot(ref) == ~IsWithin(Normalize(ReposDir \o <<"/">> \o ref), RootLoc)

\* An exec request has been handled, and `last` describes it
Handled == last.route # "none"

\* A refusal: one diagnostic, exit status 1, end-of-stream, close
IsRefusal(out) ==
    /\ Len(out) = 4
    /\ out[1].kind = "data" /\ out[1].from = NoPid
    /\ out[2] = Msg("exit", NoPid, 1)
    /\ out[3] = Msg("eof", NoPid, 0)
    /\ out[4] = Msg("close", NoPid, 0)

\* C1: a pack-protocol request whose reference has a ".." segment or leaves
\* the root is refused with "Invalid repository path" and exit status 1,
\* before any access to the file system, and spawns nothing.
C1_TraversalRefused ==
    (/\ Handled
     /\ IsPackRequest(last.command)
     /\ \/ HasParentSegment(RepoRef(last.command))
        \/ EscapesRoot(RepoRef(last.command)))
    => /\ last.out = Reply(Text("Invalid repository path\n", <<>>), 1)
       /\ last.fsOps = <<>>
       /\ last.spawned = NoPid

\* C2: every path checked for existence, created, or handed to a subprocess
\* names, once "." and ".." are resolved, a location at or below the root.
C2_PathsWithinRoot ==
    /\ \A i \in DOMAIN last.fsOps :
          IsWithin(Normalize(last.fsOps[i].path), RootLoc)
    /\ \A p \in Pids :
          procs[p].state # "unused" => IsWithin(Normalize(procs[p].arg), RootLoc)

\* C3: a request is handled as pack-protocol only when its first token is
\* git-upload-pack or git-receive-pack, as creation only when it is
\* agito-create-repo, and every spawned program is one of the two verbs.
C3_ClassifiedByFirstToken ==
    /\ (Handled /\ last.route = "git")
          => /\ Tokens(last.command) # <<>>
             /\ Tokens(last.command)[1] \in {GitUploadPack, GitReceivePack}
    /\ (Handled /\ last.route = "create")
          => /\ Tokens(last.command) # <<>>
             /\ Tokens(last.command)[1] = AgitoCreateRepo
    /\ \A p \in Pids :
          procs[p].state # "unused" => procs[p].prog \in {GitUploadPack, GitReceivePack}

\* The class of a request by its first token
ClassOf(command) ==
    IF Tokens(command) = <<>> THEN "unrecognized"
    ELSE IF Tokens(command)[1] \in {GitUploadPack, GitReceivePack} THEN "pack"
    ELSE IF Tokens(command)[1] = AgitoCreateRepo THEN "creation"
    ELSE "unrecognized"

\* C4: an unrecognized request, or a verb with no second token, gets one
\* diagnostic ("Unknown command: <command>" when unrecognized), exit
\* status 1, end-of-stream and close, in that order; nothing is spawned
\* and nothing is registered.
C4_UnrecognizedRefused ==
    /\ (Handled /\ ClassOf(last.command) = "unrecognized")
          => /\ last.out = Reply(Text("Unknown command: {}\n", last.command), 1)
             /\ last.spawned = NoPid
             /\ ~last.failed
    /\ (Handled /\ ClassOf(last.command) # "unrecognized"
                /\ Len(Tokens(last.command)) < 2)
          => /\ IsRefusal(last.out)
             /\ last.spawned = NoPid
             /\ ~last.failed

\* The path a request's reference resolves to below the root
ResolvedPath(command) == ReposDir \o <<"/">> \o RepoRef(command)

\* A step that handles an exec request
ExecStep == execCount' = execCount + 1

C6_StdinInOrder ==
    \A p \in Pids :
        procs[p].state # "unused" =>
            /\ IsPrefix(procs[p].stdinWritten, procs[p].expected)
            /\ ~procs[p].stdinErr =>
                  procs[p].stdinWritten \o Flatten(procs[p].rxQueue) = procs[p].expected
            /\ procs[p].stdinErr => procs[p].state = "exited"

\* C6 witness: a live subprocess has been written two bytes and its
\* stdin-forward task has ended on the end of the queue
C6_Witness ==
    \E p \in Pids :
        /\ procs[p].state = "running"
        /\ procs[p].stdinPc = "done"
        /\ ~procs[p].stdinErr
        /\ Len(procs[p].stdinWritten) >= 2
        /\ procs[p].stdinWritten = procs[p].expected

\* The messages of kind k that the tasks of subprocess p sent on channel c
MsgsOf(c, p, k) ==
    SelectSeq(chanOut[c], LAMBDA m : m.from = p /\ m.kind = k)

\* Where on channel c the tasks of subprocess p sent a message of kind k
IndexesOf(c, p, k) ==
    { i \in DOMAIN chanOut[c] : chanOut[c][i].from = p /\ chanOut[c][i].kind = k }

\* The stdout bytes of p sent as primary data among the first n messages of
\* its channel
DataWithin(p, n) ==
    LET head == SubSeq(chanOut[procs[p].chan], 1, n)
        mine == SelectSeq(head, LAMBDA m : m.from = p /\ m.kind = "data")
    IN  Flatten([i \in 1..Len(mine) |-> mine[i].body])

\* All stdout bytes of p sent as primary data on its channel
Delivered(p) == DataWithin(p, Len(chanOut[procs[p].chan]))

\* The bytes p has written to its standard output
Produced(p) == [i \in 1..procs[p].outCount |-> i]

\* C7 as claimed: when the server's close for a subprocess is on the
\* channel, everything the subprocess wrote to stdout is on the channel
\* before it, in order.
C7_AllOutputBeforeClose ==
    \A p \in Pids :
        procs[p].state # "unused" =>
            \A i \in IndexesOf(procs[p].chan, p, "close") :
                DataWithin(p, i) = Produced(p)

\* C7 amended: what the stdout relay has sent as primary data on the
\* subprocess's channel is at all times a prefix of what the subprocess
\* wrote, and is all of it once the relay has ended on a zero-length read;
\* nothing of it goes to another channel or to the error stream.
C7_OutputForwardedInOrder ==
    \A p \in Pids :
        procs[p].state # "unused" =>
            /\ IsPrefix(Delivered(p), Produced(p))
            /\ (procs[p].stdoutPc = "done" /\ ~procs[p].stdoutErr)
                  => Delivered(p) = Produced(p)
            /\ ~procs[p].stdoutErr =>
                  Delivered(p) \o procs[p].stdoutBuf \o procs[p].stdoutPipe = Produced(p)
            /\ \A c \in Channels \ {procs[p].chan} : \A k \in {"data", "ext"} :
                  IndexesOf(c, p, k) = {}
            /\ IndexesOf(procs[p].chan, p, "ext") = {}

\* C7 witness: a subprocess wrote its whole output, the relay ended on the
\* zero-length read, and the server's close was sent on the channel
C7_Witness ==
    \E p \in Pids :
        /\ procs[p].outCount = MaxOut
        /\ procs[p].stdoutPc = "done"
        /\ ~procs[p].stdoutErr
        /\ Delivered(p) = Produced(p)
        /\ IndexesOf(procs[p].chan, p, "close") # {}

\* A channel is Streaming: a subprocess bound to it is alive
Streaming(c) ==
    \E p \in Pids : procs[p].state = "running" /\ procs[p].chan = c

\* C8: the table holds an entry for a channel exactly when the channel is
\* Streaming.
C8_EntryIffStreaming ==
    \A c \in Channels : (git_processes[c] # NoPid) <=> Streaming(c)

\* C9: the exit-wait task sends exit status, end-of-stream and close once
\* each and in that order, on the subprocess's channel only, never before
\* the subprocess has terminated; the status is the exit code when there is
\* one and 1 otherwise; and all three are sent when the task has ended with
\* the session still running.
C9_ExitStatusEofClose ==
    \A p \in Pids :
        procs[p].state # "unused" =>
            LET c == procs[p].chan
                ex == IndexesOf(c, p, "exit")
                eo == IndexesOf(c, p, "eof")
                cl == IndexesOf(c, p, "close")
            IN  /\ Cardinality(ex) <= 1 /\ Cardinality(eo) <= 1 /\ Cardinality(cl) <= 1
                /\ (ex \cup eo \cup cl) # {} => procs[p].state = "exited"
                /\ \A j \in eo : \E i \in ex : i < j
                /\ \A j \in cl : \E i \in eo : i < j
                /\ \A i \in ex :
                      procs[p].exitPc # "wait" /\ chanOut[c][i].body =
                          IF procs[p].waitResult[1] = "code"
                          THEN procs[p].waitResult[2] ELSE 1
                /\ (procs[p].exitPc = "done" /\ sessionAlive)
                      => (ex # {} /\ eo # {} /\ cl # {})
                /\ \A d \in Channels \ {c} : \A k \in {"exit", "eof", "close"} :
                      IndexesOf(d, p, k) = {}

\* C9 witness: a subprocess died without an exit code and the exit-wait
\* task has sent status 1, end-of-stream and close
C9_Witness ==
    \E p \in Pids :
        /\ procs[p].waitResult[1] = "signal"
        /\ procs[p].exitPc = "done"
        /\ MsgsOf(procs[p].chan, p, "exit") = << Msg("exit", p, 1) >>
        /\ IndexesOf(procs[p].chan, p, "close") # {}

\* C10: at most one exit status is ever sent on a channel.
C10_OneExitStatus ==
    \A c \in Channels :
        Cardinality({ i \in DOMAIN chanOut[c] : chanOut[c][i].kind = "exit" }) <= 1

\* The stdin-forward task of p has left its loop
StdinLoopLeft(p) == procs[p].stdinPc \in {"shutdown", "done"}

StdinShutDownOnce(p) ==
    /\ procs[p].stdinShutdowns <= 1
    /\ (procs[p].stdinShutdowns = 1) <=> (procs[p].stdinPc = "done")
    /\ (StdinLoopLeft(p) /\ ~procs[p].stdinErr)
          => /\ ~SenderAlive(git_processes, procs, p)
             /\ procs[p].rxQueue = <<>>
             /\ procs[p].stdinWritten = procs[p].expected
    /\ procs[p].stdinErr => procs[p].state = "exited"

C12_SendUnregisteredNoop ==
    [][ \A c \in Channels, n \in 1..MaxData :
          (Data(c, n) /\ git_processes[c] = NoPid)
              => /\ git_processes' = git_processes
                 /\ procs' = procs
                 /\ chanOut' = chanOut
                 /\ sessionAlive' = sessionAlive
      ]_vars

\* C12 witness: on the only channel opened, still open, the first byte was
\* accepted for a subprocess, the entry was then removed, and the second
\* byte the client sent reached no subprocess, while the sender of another
\* channel is absent
C12_Witness ==
    \E c \in Channels, p \in Pids :
        /\ sessionAlive
        /\ chanStatus[c] = "open"
        /\ \A d \in Channels \ {c} : chanStatus[d] = "unopened"
        /\ procs[p].chan = c
        /\ git_processes[c] = NoPid
        /\ procs[p].expected = <<1>>
        /\ \A q \in Pids \ {p} : procs[q].expected = <<>>
        /\ sentCount = 2

\* C13: a channel EOF or close leaves the channel without an entry and
\* every other channel's entry as it was, and the session goes on; on a
\* channel that has no entry (never registered, or removed before) it
\* leaves the table as it is; and removing twice from any table the server
\* reaches is removing once.
C13_RemoveIdempotent ==
    [][ \A c \in Channels :
          (ChannelEof(c) \/ ChannelClose(c))
              => /\ git_processes'[c] = NoPid
                 /\ \A d \in Channels \ {c} : git_processes'[d] = git_processes[d]
                 /\ git_processes[c] = NoPid => git_processes' = git_processes
                 /\ sessionAlive' = sessionAlive
                 /\ \A d \in Channels :
                       /\ Remove(Remove(git_processes, d), d) = Remove(git_processes, d)
                       /\ Remove(git_processes', d) = Remove(Remove(git_processes, c), d)
      ]_vars

\* C13 witness: a channel to which no subprocess was ever bound has been
\* closed, the session goes on, and the other channel still has its entry
C13_Witness ==
    \E c \in Channels, d \in Channels :
        /\ c # d
        /\ sessionAlive
        /\ chanStatus[c] = "closed"
        /\ \A p \in Pids : procs[p].chan # c
        /\ git_processes[c] = NoPid
        /\ git_processes[d] # NoPid

\* auth_publickey has been called, and `auth` describes the call
Attempted == auth.result # "none"

\* The keys that the pieces of the store's text between blanks and line
\* feeds decode to, wherever they stand
KeysAnywhere(text) ==
    LET pieces == SplitOn(text, Whitespace \cup {"\n"}, <<>>, <<>>)
    IN  { ParsePublicKeyBase64(pieces[i]) : i \in DOMAIN pieces } \ {NoKey}

\* C14: a key that nothing in the store decodes to is rejected; every key is
\* rejected when the store is missing or empty; and a store that is missing
\* or cannot be read never accepts.
C14_NoMatchRejected ==
    Attempted =>
        /\ ~authorized_keys.exists => auth.result = "reject"
        /\ (authorized_keys.exists /\ authorized_keys.readable
               /\ authorized_keys.text = <<>>) => auth.result = "reject"
        /\ (authorized_keys.exists /\ authorized_keys.readable
               /\ auth.key \notin KeysAnywhere(authorized_keys.text))
              => auth.result = "reject"
        /\ ~(authorized_keys.exists /\ authorized_keys.readable)
              => auth.result # "accept"

\* C14 witness: the store holds the other key and not the presented one,
\* and the attempt was rejected
C14_Witness ==
    /\ Attempted
    /\ authorized_keys.exists /\ authorized_keys.readable
    /\ KeysAnywhere(authorized_keys.text) = PublicKeys \ {auth.key}
    /\ auth.result = "reject"

\* The fields of a line separated by spaces, and by any whitespace
FieldsBySpace(line) == SplitOn(line, {" "}, <<>>, <<>>)
FieldsByWhitespace(line) == SplitOn(line, Whitespace, <<>>, <<>>)

\* A line contributes key k: it has a field, does not start with '#', and
\* its key body (the second field of two or more, the only field of one)
\* decodes to k
Contributes(fields, line, k) ==
    /\ fields # <<>>
    /\ ~StartsWith(line, <<"#">>)
    /\ k # NoKey
    /\ ParsePublicKeyBase64(IF Len(fields) >= 2 THEN fields[2] ELSE fields[1]) = k

\* C15 as claimed: the attempt is accepted exactly when some line of the
\* store contributes the presented key, its fields being separated by
\* spaces.
C15_AcceptsIffSpaceField ==
    (Attempted /\ authorized_keys.exists /\ authorized_keys.readable) =>
        ((auth.result = "accept") <=>
            \E i \in DOMAIN Lines(authorized_keys.text) :
                LET line == Lines(authorized_keys.text)[i]
                IN  Contributes(FieldsBySpace(line), line, auth.key))

\* C15: the attempt is accepted exactly when some line of the store
\* contributes the presented key, its fields being separated by whitespace
\* (spaces or tabs); blank lines, lines starting with '#' and lines whose
\* key body does not decode contribute nothing and stop nothing.
C15_AcceptsIffWhitespaceField ==
    (Attempted /\ authorized_keys.exists /\ authorized_keys.readable) =>
        /\ auth.result \in {"accept", "reject"}
        /\ (auth.result = "accept") <=>
              \E i \in DOMAIN Lines(authorized_keys.text) :
                  LET line == Lines(authorized_keys.text)[i]
                  IN  Contributes(FieldsByWhitespace(line), line, auth.key)

\* C15 witness: the first line of the store has a key body that does not
\* decode, the second line has the presented key as its second field, and
\* the attempt was accepted
C15_Witness ==
    /\ Attempted
    /\ authorized_keys.exists /\ authorized_keys.readable
    /\ Len(Lines(authorized_keys.text)) = 2
    /\ Lines(authorized_keys.text)[1] = <<"t", " ", "X">>
    /\ Lines(authorized_keys.text)[2] = KeyLine
    /\ auth.key = 1
    /\ auth.result = "accept"

\* A repository-creation request: the verb as first token, and a name
IsCreateRequest(command) ==
    /\ Len(Tokens(command)) >= 2
    /\ Tokens(command)[1] = AgitoCreateRepo

\* The name of a creation request as given, and normalized: with the
\* suffix ".git" when it has none
GivenName(command) == Tokens(command)[2]
NormalizedName(name) == IF EndsWith(name, DotGit) THEN name ELSE name \o DotGit

\* The location root/<name>
ChildOfRoot(name) == Append(RootLoc, name)

\* Nothing of the bridge is touched: no subprocess, no table entry
NoBridge ==
    /\ last'.spawned = NoPid
    /\ ~last'.failed
    /\ procs' = procs
    /\ git_processes' = git_processes

\* The request of the step is answered "Repository created" for name, with
\* exit status 0, end-of-stream and close, and the repository root/<name>
\* is the one location added
CreatedStep(name) ==
    /\ last'.out = Reply(Text("Repository created: {}\n", name), 0)
    /\ chanOut'[last'.chan] = chanOut[last'.chan] \o last'.out
    /\ files' = files \cup {ChildOfRoot(name)}
    /\ ChildOfRoot(name) \notin files

\* C16 as claimed: a creation request whose name has no ".." segment and no
\* separator, and whose normalized path does not exist, initializes the
\* repository at root/<normalized name> and is answered "Repository
\* created", exit status 0, with nothing of the bridge touched.
C16_ValidNameCreated ==
    [][ (/\ ExecStep
         /\ IsCreateRequest(last'.command)
         /\ ~HasParentSegment(GivenName(last'.command))
         /\ ~Contains(GivenName(last'.command), <<"/">>)
         /\ ChildOfRoot(NormalizedName(GivenName(last'.command))) \notin files)
        => (CreatedStep(NormalizedName(GivenName(last'.command))) /\ NoBridge)
      ]_vars

\* C16: a creation request whose normalized name has neither two dots in a
\* row nor a separator, and whose path does not exist, either initializes
\* the repository at exactly root/<normalized name> and is answered
\* "Repository created: <normalized name>", exit status 0, end-of-stream
\* and close, or, when the initialization fails, is answered "Failed to
\* create repository", exit status 1, end-of-stream and close, with at most
\* that one location added; in both cases nothing of the bridge is touched.
C16_CreatedOrInitFailed ==
    [][ (/\ ExecStep
         /\ IsCreateRequest(last'.command)
         /\ ~Contains(NormalizedName(GivenName(last'.command)), <<".", ".">>)
         /\ ~Contains(NormalizedName(GivenName(last'.command)), <<"/">>)
         /\ ChildOfRoot(NormalizedName(GivenName(last'.command))) \notin files)
        => LET name == NormalizedName(GivenName(last'.command))
           IN  /\ NoBridge
               /\ \/ CreatedStep(name)
                  \/ /\ last'.out
                           = Reply(Text("Failed to create repository: {}\n", <<>>), 1)
                     /\ chanOut'[last'.chan] = chanOut[last'.chan] \o last'.out
                     /\ files' \in {files, files \cup {ChildOfRoot(name)}}
      ]_vars

\* C16 witness: "agito-create-repo b" was answered "Repository created:
\* b.git" and root/b.git exists
C16_Witness ==
    /\ last.command = AgitoCreateRepo \o Sp \o <<"b">>
    /\ last.out = Reply(Text("Repository created: {}\n", <<"b">> \o DotGit), 0)
    /\ ChildOfRoot(<<"b">> \o DotGit) \in files

\* A creation of name was reported to the client as successful
ReportedCreated(name) ==
    \E c \in Channels : \E i \in DOMAIN chanOut[c] :
        chanOut[c][i] = Msg("data", NoPid, Text("Repository created: {}\n", name))

\* C17: normalizing a normalized name changes nothing, and a creation
\* request whose normalized name was created successfully before is
\* answered "Repository already exists: <normalized name>", exit status 1,
\* end-of-stream and close, and changes no file and nothing of the bridge.
C17_CreationNotRepeatable ==
    [][ (ExecStep /\ IsCreateRequest(last'.command))
        => LET name == NormalizedName(GivenName(last'.command))
           IN  /\ NormalizedName(name) = name
               /\ ReportedCreated(name)
                     => /\ last'.out
                             = Reply(Text("Repository already exists: {}\n", name), 1)
                        /\ chanOut'[last'.chan] = chanOut[last'.chan] \o last'.out
                        /\ files' = files
                        /\ NoBridge
      ]_vars

\* C17 witness: after b.git was created, a request spelled "b.git" was
\* answered "Repository already exists: b.git"
C17_Witness ==
    /\ ReportedCreated(<<"b">> \o DotGit)
    /\ last.command = AgitoCreateRepo \o Sp \o <<"b">> \o DotGit
    /\ last.out = Reply(Text("Repository already exists: {}\n", <<"b">> \o DotGit), 1)

\* C18: a creation request whose name has a ".." segment or a separator is
\* refused with exit status 1 and changes no file and nothing of the
\* bridge; and every location the server has added is a direct child of
\* the root whose name ends in ".git".
C18_FlatNamespace ==
    [][ /\ (/\ ExecStep
            /\ IsCreateRequest(last'.command)
            /\ \/ HasParentSegment(GivenName(last'.command))
               \/ Contains(GivenName(last'.command), <<"/">>))
           => /\ IsRefusal(last'.out)
              /\ chanOut'[last'.chan] = chanOut[last'.chan] \o last'.out
              /\ files' = files
              /\ NoBridge
        /\ \A loc \in files' \ InitialFiles :
              /\ Len(loc) = Len(RootLoc) + 1
              /\ SubSeq(loc, 1, Len(RootLoc)) = RootLoc
              /\ EndsWith(loc[Len(loc)], DotGit)
      ]_vars

\* C18 witness: "agito-create-repo b/c" was refused with "Invalid
\* repository name", after a repository was created
C18_Witness ==
    /\ last.command = AgitoCreateRepo \o Sp \o <<"b", "/", "c">>
    /\ last.out = Reply(Text("Invalid repository name\n", <<>>), 1)
    /\ files # InitialFiles

\* The subprocesses spawned for channel c that have not exited
ActiveOn(c) == { p \in Pids : procs[p].state = "running" /\ procs[p].chan = c }

\* C19: every channel has at most one active (spawned and not yet exited)
\* subprocess bound to it.
C19_OneActivePerChannel ==
    \A c \in Channels : Cardinality(ActiveOn(c)) <= 1

\* Channel c has reached Closed: a subprocess of it exited, or the client
\* tore the channel down
ReachedClosed(c) ==
    \/ chanStatus[c] = "closed"
    \/ \E p \in Pids : procs[p].state = "exited" /\ procs[p].chan = c

\* C20: once a channel has reached Closed, no step spawns a subprocess for
\* it or registers a ChannelTable entry for it.
C20_NoStreamingAfterClosed ==
    [][ \A c \in Channels :
          ReachedClosed(c)
          => /\ \A p \in Pids :
                   (procs[p].state = "unused" /\ procs'[p].state # "unused")
                   => procs'[p].chan # c
             /\ git_processes'[c] \in {git_processes[c], NoPid}
      ]_vars

\* What the stdout relay of p holds and has not forwarded: the bytes it
\* has read and not sent, and those still in the pipe
StdoutHeld(p) == procs[p].stdoutBuf \o procs[p].stdoutPipe

\* C21: the exit-wait task does not join the relay tasks: once the
\* subprocess has terminated the task's next call is enabled whatever the
\* stdout relay holds, and so the state of C21_Witness is reachable, where
\* exit status, end-of-stream and close are on the channel while the relay
\* holds output it has not forwarded.
C21_ExitDoesNotJoinRelays ==
    \A p \in Pids :
        /\ (procs[p].state = "exited" /\ procs[p].exitPc = "wait")
              => ENABLED (\E r \in WaitResults : ExitStatus(p, r))
        /\ procs[p].exitPc = "eof" => ENABLED ExitEof(p)
        /\ procs[p].exitPc = "close" => ENABLED ExitClose(p)

\* C21 witness: exit status, end-of-stream and close of a subprocess are on
\* its channel, the session runs, and the stdout relay holds a chunk it has
\* read and not yet sent
C21_Witness ==
    \E p \in Pids :
        /\ sessionAlive
        /\ procs[p].exitPc = "done"
        /\ IndexesOf(procs[p].chan, p, "exit") # {}
        /\ IndexesOf(procs[p].chan, p, "eof") # {}
        /\ IndexesOf(procs[p].chan, p, "close") # {}
        /\ procs[p].stdoutPc = "send"
        /\ procs[p].stdoutBuf # <<>>
        /\ Delivered(p) # Produced(p)

\* The stderr bytes of p sent on the error stream of its channel
DeliveredErr(p) ==
    LET mine == MsgsOf(procs[p].chan, p, "ext")
    IN  Flatten([i \in 1..Len(mine) |-> mine[i].body])

\* The bytes p has written to its standard error
ProducedErr(p) == [i \in 1..procs[p].errCount |-> 100 + i]

\* C22: client EOF or close on a Streaming channel cancels only the write
\* direction. The EOF or close step itself changes nothing of any
\* subprocess or task; once the sender of a subprocess is out of the table
\* no step queues further client data for it; a subprocess changes state
\* only by terminating on its own; the relays lose nothing of what it
\* writes afterwards (sent, read or in the pipe is all it wrote) and can
\* always take their next step; and the exit-wait task reports the exit
\* status once the subprocess has exited.
C22_EofCancelsWriteOnly ==
    [][ /\ \A c \in Channels :
              (git_processes[c] # NoPid /\ git_processes'[c] = NoPid)
              => /\ procs' = procs
                 /\ chanOut' = chanOut
                 /\ sessionAlive'
        /\ \A p \in Pids :
              (Started(p) /\ ~SenderAlive(git_processes, procs, p))
              => /\ procs'[p].expected = procs[p].expected
                 /\ Len(procs'[p].rxQueue) <= Len(procs[p].rxQueue)
                 /\ procs'[p].stdinWritten \in
                       {procs[p].stdinWritten,
                        procs[p].stdinWritten \o Head(procs[p].rxQueue \o << <<>> >>)}
                 /\ procs'[p].state # procs[p].state
                       => (procs[p].state = "running" /\ ProcExit(p))
                 /\ Delivered(p)' \o procs'[p].stdoutBuf \o procs'[p].stdoutPipe
                       = Produced(p)'
                 /\ DeliveredErr(p)' \o procs'[p].stderrBuf \o procs'[p].stderrPipe
                       = ProducedErr(p)'
                 /\ (procs'[p].stdoutPc = "send") => (ENABLED StdoutSend(p))'
                 /\ (procs'[p].stdoutPc = "read" /\ procs'[p].stdoutPipe # <<>>)
                       => (ENABLED StdoutRead(p))'
                 /\ (procs'[p].stderrPc = "send") => (ENABLED StderrSend(p))'
                 /\ (procs'[p].state = "exited" /\ procs'[p].exitPc = "wait")
                       => (ENABLED (\E r \in WaitResults : ExitStatus(p, r)))'
                 /\ (procs'[p].exitPc = "done")
                       => IndexesOf(procs[p].chan, p, "exit")' # {}
      ]_vars

\* C22 witness: the client sent EOF and then data that was dropped; the
\* subprocess lived on, wrote its output after its stdin was shut down, and
\* all of it was forwarded on both streams; it exited on its own and its
\* exit status, end-of-stream and close were sent
C22_Witness ==
    \E p \in Pids :
        /\ Started(p)
        /\ chanStatus[procs[p].chan] = "open"
        /\ ~SenderAlive(git_processes, procs, p)
        /\ sentCount > Len(procs[p].expected)
        /\ procs[p].stdinWritten = procs[p].expected
        /\ procs[p].stdinShutdowns = 1
        /\ procs[p].outCount = MaxOut /\ Delivered(p) = Produced(p)
        /\ procs[p].errCount = MaxErr /\ DeliveredErr(p) = ProducedErr(p)
        /\ procs[p].exitPc = "done"
        /\ IndexesOf(procs[p].chan, p, "exit") # {}

\* C23: once a subprocess has exited and its exit status and close are on
\* its channel, the table holds no entry for it.
C23_EntryRemovedOnExit ==
    \A p \in Pids :
        (/\ Started(p)
         /\ procs[p].state = "exited"
         /\ IndexesOf(procs[p].chan, p, "exit") # {}
         /\ IndexesOf(procs[p].chan, p, "close") # {})
        => git_processes[procs[p].chan] # p

\* The bytes of standard output are 1, 2, ...; those of standard error
\* 101, 102, ...
IsStdoutByte(b) == b <= 100
IsStderrByte(b) == b > 100

C25_SpawnFailureIsSessionError ==
    [][ (ExecStep /\ last'.failed)
        => /\ ~sessionAlive'
           /\ chanOut' = chanOut
           /\ last'.out = <<>>
           /\ last'.spawned = NoPid
           /\ \A c \in Channels : git_processes'[c] = NoPid
           /\ procs' = procs
           /\ files' = files
      ]_vars

\* C25 witness: the spawn for an existing repository failed; the session
\* is over and the channel of the request is empty
C25_Witness ==
    /\ last.failed
    /\ last.route = "git"
    /\ ~sessionAlive
    /\ chanOut[last.chan] = <<>>
    /\ \A p \in Pids : ~Started(p)

\* What the store as it is says of key k: "reject" without a file, "error"
\* for a file that cannot be read, "accept" when a line contributes k, and
\* "reject" otherwise
StoreSays(store, k) ==
    IF ~store.exists THEN "reject"
    ELSE IF ~store.readable THEN "error"
    ELSE IF \E i \in DOMAIN Lines(store.text) :
               Contributes(FieldsByWhitespace(Lines(store.text)[i]),
                           Lines(store.text)[i], k)
         THEN "accept"
         ELSE "reject"

\* C26: the outcome of every authentication attempt is what the store says
\* of the presented key at the moment of the attempt, whatever the claimed
\* user, the earlier attempts and their outcomes, and the contents the
\* store had before; the attempt changes nothing but its own record.
C26_AttemptsStateless ==
    [][ \A user \in Users, public_key \in PublicKeys :
          AuthAttempt(user, public_key)
          => /\ auth'.result = StoreSays(authorized_keys, public_key)
             /\ \A other \in Users :
                   AuthPublickey(authorized_keys, other, public_key) = auth'.result
             /\ authorized_keys' = authorized_keys
      ]_vars

\* C26 witness: a key was accepted, its line was taken out of the store,
\* and the next attempt with the same key, by the same user, was rejected
\* although the file still lists the other key
C26_Witness ==
    /\ auth.prev = <<1, "accept">>
    /\ auth.key = 1
    /\ auth.result = "reject"
    /\ authorized_keys.exists /\ authorized_keys.readable
    /\ KeysAnywhere(authorized_keys.text) = {2}

\* The bytes queued for the subprocess ps[p], in order
QueuedBytes(ps, p) == Flatten(ps[p].rxQueue)

\* C27: the bytes the client sends on channel c of a connection are queued
\* for the subprocess registered for c in that connection's table and for
\* no other: a data step changes no other subprocess of the connection and
\* nothing of the other connection; a step of one connection that
\* registers, sends or removes leaves the table and the subprocesses of
\* the other connection as they were; and the subprocesses of each
\* connection hold only bytes of their own client.
C27_ChannelIsolation ==
    [][ /\ \A c \in Channels, n \in 1..MaxData :
              Data(c, n)
              => /\ \A p \in Pids : p # git_processes[c] => procs'[p] = procs[p]
                 /\ git_processes[c] # NoPid
                       => /\ procs[git_processes[c]].chan = c
                          /\ procs'[git_processes[c]].rxQueue =
                                Append(procs[git_processes[c]].rxQueue,
                                       [i \in 1..n |-> sentCount + i])
                 /\ peer' = peer
        /\ (git_processes' # git_processes \/ procs' # procs) => peer' = peer
        /\ peer' # peer => (git_processes' = git_processes /\ procs' = procs)
        /\ \A p \in Pids :
              /\ \A i \in DOMAIN QueuedBytes(procs', p) :
                    QueuedBytes(procs', p)[i] <= 200
              /\ \A i \in DOMAIN QueuedBytes(peer'.procs, p) :
                    QueuedBytes(peer'.procs, p)[i] > 200
      ]_vars

\* C27 witness: the first connection has a subprocess on each of its two
\* channels, each holding the byte sent on its channel, and the second
\* connection has a subprocess on its channel 1 holding its client's bytes
C27_Witness ==
    /\ git_processes[1] # NoPid /\ git_processes[2] # NoPid
    /\ QueuedBytes(procs, git_processes[1]) = <<2>>
    /\ QueuedBytes(procs, git_processes[2]) = <<1>>
    /\ peer.git_processes[1] # NoPid
    /\ QueuedBytes(peer.procs, peer.git_processes[1]) = <<201, 202>>

\* Exit status, end-of-stream and close of subprocess p are on its channel
ExitReported(p) ==
    /\ Started(p)
    /\ IndexesOf(procs[p].chan, p, "exit") # {}
    /\ IndexesOf(procs[p].chan, p, "eof") # {}
    /\ IndexesOf(procs[p].chan, p, "close") # {}

\* C28: with the exit-wait task scheduled fairly, a subprocess that has
\* terminated leads to its exit status, end-of-stream and close being on
\* its channel, whatever the relays, the stdin-forward task and the client
\* do or fail to do.
C28_ExitEventuallyReported ==
    \A p \in Pids : (procs[p].state = "exited") ~> ExitReported(p)

\* C28 witness: exit status, end-of-stream and close were sent while the
\* stdout relay has not read what is in the pipe, the stdin-forward task
\* waits in recv with its sender still registered, and the client has sent
\* neither EOF nor close
C28_Witness ==
    \E p \in Pids :
        /\ procs[p].state = "exited"
        /\ ExitReported(p)
        /\ procs[p].stdoutPc = "read" /\ procs[p].stdoutPipe # <<>>
        /\ procs[p].stdinPc = "recv"
        /\ SenderAlive(git_processes, procs, p)
        /\ chanStatus[procs[p].chan] = "open"

\* The second connection's client was told that name was created
PeerReportedCreated(name) ==
    \E i \in DOMAIN peer.out :
        peer.out[i] = Msg("data", NoPid, Text("Repository created: {}\n", name))

\* C29: of two creation requests for one normalized name on different
\* connections, at most one reports success.
C29_OneCreationSucceeds ==
    \A name \in { NormalizedName(GivenName(command)) :
                    command \in { k \in CreateCommands : IsCreateRequest(k) } } :
        ~(ReportedCreated(name) /\ PeerReportedCreated(name))

\* The data step of channel c with a chunk of n bytes queues the chunk for
\* the subprocess registered for c
QueuedForRegistered(c, n) ==
    /\ git_processes[c] # NoPid
    /\ procs'[git_processes[c]].rxQueue =
          Append(procs[git_processes[c]].rxQueue, [i \in 1..n |-> sentCount + i])

\* An exec step that spawned has registered the sender of the new
\* subprocess for its channel when it ends, and an entry leaves the table
\* only by EOF or close on its channel or with the session
RegisteredUntilEof ==
    /\ (ExecStep /\ last'.spawned # NoPid)
          => /\ git_processes'[last'.chan] = last'.spawned
             /\ procs'[last'.spawned].chan = last'.chan
    /\ \A c \in Channels :
          (git_processes[c] # NoPid /\ git_processes'[c] # git_processes[c])
          => \/ ChannelEof(c) \/ ChannelClose(c)
             \/ ~sessionAlive'
             \/ (ExecStep /\ last'.chan = c /\ last'.spawned # NoPid)

====
